---- MODULE Spec2Model ----
(***************************************************************************)
(* A model of the e-commerce backend: the Customers, Goods and             *)
(* HistoricalPurchases tables of create_ecommerce.py and the Flask         *)
(* handlers of services/customers.py, services/inventory.py and            *)
(* services/sales.py that read and write them.                             *)
(*                                                                         *)
(* Every execute_query call opens its own connection, runs one statement   *)
(* and commits it: one statement is one atomic step, and the steps of      *)
(* requests that are in progress at the same time interleave freely.       *)
(* Money is modelled in whole units.                                       *)
(***************************************************************************)
EXTENDS Integers, Sequences, FiniteSets, TLC

\* ------------------------------------------------------------- bounds
MaxCustomers == 2
MaxGoods == 1
MaxPurchases == 2
MaxBalance == 2
MaxStock == 2
MaxPrice == 2
MaxQuantity == 2
NumWorkers == 2
MaxFields == 1
TicksPerHour == 2
MaxTime == 3
MaxReviews == 2
MaxVotes == 2

\* generate_jwt: datetime.timedelta(hours=1)
TokenHours == 1
\* if not (1 <= data["Rating"] <= 5)
MinRating == 1
MaxRating == 5

Workers == 1..NumWorkers
Usernames == {"alice", "bob"}
Passwords == {"pw", "guess"}
GoodNames == {"Laptop", "Phone"}
Prices == 1..MaxPrice
Stocks == 0..MaxStock
Quantities == 0..MaxQuantity
Amounts == 0..MaxBalance

VARIABLES
    customers,       \* Customers table: CustomerID -> row
    nextCustomerId,  \* AUTOINCREMENT counter of Customers
    goods,           \* Goods table: GoodID -> row
    nextGoodId,      \* AUTOINCREMENT counter of Goods
    purchases,       \* HistoricalPurchases table, in PurchaseID order
    issued,          \* the tokens login has issued (signed with SECRET_KEY)
    now,             \* the clock (utcnow), in ticks
    req,             \* per worker: the request it is handling, or its last response
    trace,           \* the observer: whether responses are kept with their requests'
                     \* inputs, and the tables as they were at the start
    reviews,         \* Reviews table: ReviewID -> row
    nextReviewId,    \* AUTOINCREMENT counter of Reviews
    assigned         \* history: every CustomerID a row of Customers has held

vars == <<customers, nextCustomerId, goods, nextGoodId, purchases, issued, now, req, trace,
          reviews, nextReviewId, assigned>>
db == <<customers, nextCustomerId, goods, nextGoodId, purchases>>
reviewDb == <<reviews, nextReviewId>>

\* ------------------------------------------------------------- schema
\* The Customers table created without its CHECK on WalletBalance.
WalletUnchecked(balance) == TRUE

\* CHECK (WalletBalance >= 0.0)
WalletCheck(balance) == balance >= 0

\* The Goods table created without its CHECK on StockCount.
StockUnchecked(stock) == TRUE

\* CHECK (StockCount >= 0)
StockCheck(stock) == stock >= 0

\* CHECK (PricePerItem > 0.0)
PriceCheck(price) == price > 0

\* CONSTRAINT SingleAdmin CHECK (IsAdmin IN (0, 1))
SingleAdmin(isAdmin) == isAdmin \in BOOLEAN

\* CHECK (Quantity > 0), CHECK (TotalAmount > 0.0)
PurchaseCheck(quantity, total) == quantity > 0 /\ total > 0

\* A Username column without UNIQUE.
AnyUsername(table, id, username) == TRUE

\* Username TEXT NOT NULL UNIQUE: no other row holds the name
UsernameUnique(table, id, username) ==
    \A c \in DOMAIN table : c # id => table[c].Username # username

\* ------------------------------------------------------------- queries
\* SELECT ... FROM Customers WHERE Username = ?  (fetchone: 0 when no row)
CustomerByUsername(username) ==
    LET ids == {c \in DOMAIN customers : customers[c].Username = username}
    IN  IF ids = {} THEN 0 ELSE CHOOSE c \in ids : \A d \in ids : c <= d

\* SELECT ... FROM Goods WHERE Name = ?  (fetchone: the first row, 0 when none)
GoodByName(name) ==
    LET ids == {g \in DOMAIN goods : goods[g].Name = name}
    IN  IF ids = {} THEN 0 ELSE CHOOSE g \in ids : \A h \in ids : g <= h

\* SELECT * FROM Customers WHERE IsAdmin = 1
ExistingAdmin == \E c \in DOMAIN customers : customers[c].IsAdmin

\* ------------------------------------------------------------- requests
\* The inputs of a request.
NoArgs == [none |-> TRUE]
SaleArgs(username, good_name, quantity) ==
    [username |-> username, good_name |-> good_name, quantity |-> quantity]
WalletArgs(username, header, amount) ==
    [username |-> username, header |-> header, amount |-> amount]
UpdateArgs(username, header, data) ==
    [username |-> username, header |-> header, data |-> data]
DeleteArgs(username, header) == [username |-> username, header |-> header]
LoginArgs(username, password) == [username |-> username, password |-> password]
StockArgs(good_id, quantity) == [good_id |-> good_id, quantity |-> quantity]
GoodUpdateArgs(good_id, data) == [good_id |-> good_id, data |-> data]
ReviewArgs(review_id, header, customer_id, rating, comment) ==
    [review_id |-> review_id, header |-> header, CustomerID |-> customer_id,
     Rating |-> rating, Comment |-> comment]
ModerateArgs(review_id, customer_id, status) ==
    [review_id |-> review_id, CustomerID |-> customer_id, Status |-> status]
VoteArgs(review_id) == [review_id |-> review_id]
SubmitArgs(header, customer_id, good_id, rating) ==
    [header |-> header, CustomerID |-> customer_id, GoodID |-> good_id, Rating |-> rating]

\* A worker between requests; it keeps the response of its last request.
Response(op, status, err, args, eff) ==
    [pc |-> "idle", op |-> op, status |-> status, err |-> err,
     args |-> IF trace.on THEN args ELSE NoArgs, eff |-> eff]

Idle(w) == req[w].pc = "idle"

End(w, op, status, err, args, eff) ==
    req' = [req EXCEPT ![w] = Response(op, status, err, args, eff)]

\* The claims of a token: {"Username": username, "exp": expiration}.
Token(username, exp) == [Username |-> username, exp |-> exp]

\* generate_jwt: a token for the username that expires one hour from now
generate_jwt(username) == Token(username, now + TokenHours * TicksPerHour)

\* A response whose message reports a value read from a table.
EndReporting(w, op, status, err, args, eff, reported) ==
    req' = [req EXCEPT ![w] =
               [pc |-> "idle", op |-> op, status |-> status, err |-> err,
                args |-> IF trace.on THEN args ELSE NoArgs, eff |-> eff,
                reported |-> IF trace.on THEN reported ELSE 0]]

\* Authorization headers a client can send: none, one that is no "Bearer
\* <token>", a token signed with another key, or a token that login issued.
NoHeader == [kind |-> "none"]
BadHeader == [kind |-> "bad"]
ForgedToken == [Username |-> "alice", exp |-> MaxTime + 1, key |-> "other"]
Headers == {NoHeader, BadHeader, ForgedToken} \cup issued

\* A decoder that does not look at exp.
NeverExpired(token) == FALSE

\* Whether the token's exp has passed.
Expired(token) == now >= token.exp

\* decode_jwt: the Username claim of a validly signed token that has not
\* expired, else None
decode_jwt(token) ==
    IF token \in issued /\ ~Expired(token) THEN token.Username ELSE "None"

\* token_required: 401 unless the header decodes to a username
TokenOk(header) == header # NoHeader /\ decode_jwt(header) # "None"

\* The identity check of a protected route left out.
NeverUnauthorized(username, identity) == FALSE

\* if username != kwargs["Username"]: 403 (customers.py 215, 252, 317, 363)
Unauthorized(username, identity) == username # identity

\* ------------------------------------------------------------- sales.py
\* The purchase requests that are in progress (each may still append a row).
SalesInProgress == {w \in Workers : req[w].pc \in {"sale_customer", "sale_debit", "sale_stock", "sale_insert"}}

\* total_cost = price_per_item * quantity charged for one item only.
UnitCost(price_per_item, quantity) == price_per_item

\* make_sale, line 139
TotalCost(price_per_item, quantity) == price_per_item * quantity

\* wallet_balance <= total_cost: a wallet that holds exactly the cost refused.
FundsAtMost(wallet_balance, total_cost) == wallet_balance <= total_cost

\* make_sale, line 148
InsufficientFunds(wallet_balance, total_cost) == wallet_balance < total_cost

\* make_sale, lines 115-139: the quantity check, the read of the good and
\* the stock check. The route has no token_required: the Authorization
\* header is carried but never looked at.
SaleBegin(w, username, good_name, quantity, header) ==
    /\ Idle(w)
    /\ Len(purchases) + Cardinality(SalesInProgress) < MaxPurchases
    /\ IF quantity <= 0
       THEN End(w, "sale", 400, "InvalidQuantity", SaleArgs(username, good_name, quantity), {})
       ELSE LET good_id == GoodByName(good_name)
            IN  IF good_id = 0
                THEN End(w, "sale", 404, "GoodNotFound", SaleArgs(username, good_name, quantity), {})
                ELSE IF goods[good_id].StockCount < quantity
                THEN End(w, "sale", 400, "InsufficientStock", SaleArgs(username, good_name, quantity), {})
                ELSE req' = [req EXCEPT ![w] =
                        [pc |-> "sale_customer", op |-> "sale", header |-> header,
                         args |-> SaleArgs(username, good_name, quantity),
                         username |-> username, good_id |-> good_id,
                         quantity |-> quantity,
                         total_cost |-> TotalCost(goods[good_id].PricePerItem, quantity),
                         customer_id |-> 0, eff |-> {}]]
    /\ UNCHANGED <<db, issued, now, trace, reviewDb, assigned>>

\* The funds check with the wallet emptied before the refusal is answered.
SaleReadCustomerDebitFirst(w) ==
    /\ req[w].pc = "sale_customer"
    /\ LET customer_id == CustomerByUsername(req[w].username)
       IN  IF customer_id = 0
           THEN /\ End(w, "sale", 404, "CustomerNotFound", req[w].args, {})
                /\ UNCHANGED customers
           ELSE IF InsufficientFunds(customers[customer_id].WalletBalance, req[w].total_cost)
           THEN /\ End(w, "sale", 400, "InsufficientFunds", req[w].args, {})
                /\ customers' = [customers EXCEPT ![customer_id].WalletBalance = 0]
           ELSE /\ req' = [req EXCEPT ![w].pc = "sale_debit", ![w].customer_id = customer_id]
                /\ UNCHANGED customers
    /\ UNCHANGED <<nextCustomerId, goods, nextGoodId, purchases, issued, now, trace, reviewDb, assigned>>

\* make_sale, lines 141-149: the read of the customer and the funds check.
SaleReadCustomer(w) ==
    /\ req[w].pc = "sale_customer"
    /\ LET customer_id == CustomerByUsername(req[w].username)
       IN  IF customer_id = 0
           THEN End(w, "sale", 404, "CustomerNotFound", req[w].args, {})
           ELSE IF InsufficientFunds(customers[customer_id].WalletBalance, req[w].total_cost)
           THEN End(w, "sale", 400, "InsufficientFunds", req[w].args, {})
           ELSE req' = [req EXCEPT ![w].pc = "sale_debit", ![w].customer_id = customer_id]
    /\ UNCHANGED <<db, issued, now, trace, reviewDb, assigned>>

\* make_sale, lines 151 and 153: UPDATE Customers SET WalletBalance =
\* WalletBalance - ? WHERE CustomerID = ?, committed on its own. A row that
\* is gone is no error; a balance below 0 fails the CHECK and the handler
\* answers 500.
SaleDebit(w) ==
    /\ req[w].pc = "sale_debit"
    /\ LET id == req[w].customer_id
       IN  IF id \notin DOMAIN customers
           THEN /\ req' = [req EXCEPT ![w].pc = "sale_stock"]
                /\ UNCHANGED customers
           ELSE IF ~WalletCheck(customers[id].WalletBalance - req[w].total_cost)
           THEN /\ End(w, "sale", 500, "IntegrityError", req[w].args, req[w].eff)
                /\ UNCHANGED customers
           ELSE /\ customers' = [customers EXCEPT ![id].WalletBalance = @ - req[w].total_cost]
                /\ req' = [req EXCEPT ![w].pc = "sale_stock", ![w].eff = @ \cup {"debit"}]
    /\ UNCHANGED <<nextCustomerId, goods, nextGoodId, purchases, issued, now, trace, reviewDb, assigned>>

\* make_sale, lines 152 and 154: UPDATE Goods SET StockCount = StockCount - ?
\* WHERE GoodID = ?, committed on its own.
SaleStock(w) ==
    /\ req[w].pc = "sale_stock"
    /\ LET id == req[w].good_id
       IN  IF id \notin DOMAIN goods
           THEN /\ req' = [req EXCEPT ![w].pc = "sale_insert"]
                /\ UNCHANGED goods
           ELSE IF ~StockCheck(goods[id].StockCount - req[w].quantity)
           THEN /\ End(w, "sale", 500, "IntegrityError", req[w].args, req[w].eff)
                /\ UNCHANGED goods
           ELSE /\ goods' = [goods EXCEPT ![id].StockCount = @ - req[w].quantity]
                /\ req' = [req EXCEPT ![w].pc = "sale_insert", ![w].eff = @ \cup {"stock"}]
    /\ UNCHANGED <<customers, nextCustomerId, nextGoodId, purchases, issued, now, trace, reviewDb, assigned>>

\* make_sale, lines 156-162: INSERT INTO HistoricalPurchases, then 200.
SaleInsert(w) ==
    /\ req[w].pc = "sale_insert"
    /\ IF ~PurchaseCheck(req[w].quantity, req[w].total_cost)
       THEN /\ End(w, "sale", 500, "IntegrityError", req[w].args, req[w].eff)
            /\ UNCHANGED purchases
       ELSE /\ purchases' = Append(purchases,
                   [CustomerID |-> req[w].customer_id, GoodID |-> req[w].good_id,
                    Quantity |-> req[w].quantity, TotalAmount |-> req[w].total_cost])
            /\ End(w, "sale", 200, "none", req[w].args, req[w].eff \cup {"ledger"})
    /\ UNCHANGED <<customers, nextCustomerId, goods, nextGoodId, issued, now, trace, reviewDb, assigned>>

\* ------------------------------------------------------------- customers.py
\* The registrations that are in progress (each may still insert a row).
RegistersInProgress == {w \in Workers : req[w].pc \in {"register_admin", "register_insert"}}

\* username_pattern, ^[a-zA-Z0-9_.-]{3,20}$: "al" is too short
RegisterNames == Usernames \cup {"al"}
UsernamePattern(username) == username \in Usernames

\* register_customer, lines 120-136: the pattern check and the read of the
\* existing user.
RegisterBegin(w, username, password, is_admin) ==
    /\ Idle(w)
    /\ nextCustomerId + Cardinality(RegistersInProgress) <= MaxCustomers
    /\ IF ~UsernamePattern(username)
       THEN End(w, "register", 400, "InvalidUsername", NoArgs, {})
       ELSE IF CustomerByUsername(username) # 0
       THEN End(w, "register", 400, "UsernameExists", NoArgs, {})
       ELSE req' = [req EXCEPT ![w] =
               [pc |-> IF is_admin THEN "register_admin" ELSE "register_insert",
                op |-> "register", username |-> username, password |-> password,
                is_admin |-> is_admin]]
    /\ UNCHANGED <<db, issued, now, trace, reviewDb, assigned>>

\* register_customer, lines 137-140: the read of the existing admin.
RegisterAdminCheck(w) ==
    /\ req[w].pc = "register_admin"
    /\ IF ExistingAdmin
       THEN End(w, "register", 400, "AdminExists", NoArgs, {})
       ELSE req' = [req EXCEPT ![w].pc = "register_insert"]
    /\ UNCHANGED <<db, issued, now, trace, reviewDb, assigned>>

\* AUTOINCREMENT: the new key is one more than the largest key the table has
\* ever been given by an INSERT, or than the largest key it holds now.
NewCustomerId ==
    LET held == {c \in DOMAIN customers : \A o \in DOMAIN customers : o <= c}
    IN  IF held = {} THEN nextCustomerId
        ELSE LET top == CHOOSE c \in held : TRUE
             IN  IF top + 1 > nextCustomerId THEN top + 1 ELSE nextCustomerId

\* register_customer, lines 142-155: the INSERT with WalletBalance 0.0; a
\* UNIQUE failure is answered 400.
RegisterInsert(w) ==
    /\ req[w].pc = "register_insert"
    /\ IF ~UsernameUnique(customers, 0, req[w].username)
       THEN /\ End(w, "register", 400, "UsernameExists", NoArgs, {})
            /\ UNCHANGED <<customers, nextCustomerId>>
       ELSE IF ~SingleAdmin(req[w].is_admin)
       THEN /\ End(w, "register", 500, "IntegrityError", NoArgs, {})
            /\ UNCHANGED <<customers, nextCustomerId>>
       ELSE /\ customers' = customers @@ (NewCustomerId :>
                   [Username |-> req[w].username, Password |-> req[w].password,
                    WalletBalance |-> 0, IsAdmin |-> req[w].is_admin])
            /\ nextCustomerId' = NewCustomerId + 1
            /\ End(w, "register", 201, "none", NoArgs, {"insert"})
    /\ assigned' = assigned \cup DOMAIN customers'
    /\ UNCHANGED <<goods, nextGoodId, purchases, issued, now, trace, reviewDb>>

\* A login that takes any password.
AnyPassword(stored, supplied) == FALSE

\* user[0] != password (customers.py 186)
WrongPassword(stored, supplied) == stored # supplied

\* login, lines 176-190: a token for the username when the password matches.
Login(w, username, password) ==
    /\ Idle(w)
    /\ LET id == CustomerByUsername(username)
       IN  IF id = 0 \/ WrongPassword(customers[id].Password, password)
           THEN /\ End(w, "login", 401, "InvalidCredentials", LoginArgs(username, password), {})
                /\ UNCHANGED issued
           ELSE /\ issued' = issued \cup {generate_jwt(username)}
                /\ End(w, "login", 200, "none", LoginArgs(username, password), {})
    /\ UNCHANGED <<db, now, trace, reviewDb, assigned>>

\* The fields a PUT /update/<username> body can set: any column by name.
CustomerFields == {"CustomerID", "Username", "WalletBalance", "IsAdmin"}
CustomerUpdates ==
    {d \in [set : SUBSET CustomerFields, CustomerID : 1..(MaxCustomers + 1),
            Username : Usernames,
            WalletBalance : (-1)..MaxBalance, IsAdmin : BOOLEAN] :
        /\ Cardinality(d.set) <= MaxFields
        /\ "CustomerID" \notin d.set => d.CustomerID = 1
        /\ "Username" \notin d.set => d.Username = "alice"
        /\ "WalletBalance" \notin d.set => d.WalletBalance = 0
        /\ "IsAdmin" \notin d.set => d.IsAdmin = FALSE}

\* The row after UPDATE Customers SET <fields>.
UpdatedCustomer(row, data) ==
    [Username |-> IF "Username" \in data.set THEN data.Username ELSE row.Username,
     Password |-> row.Password,
     WalletBalance |-> IF "WalletBalance" \in data.set THEN data.WalletBalance
                       ELSE row.WalletBalance,
     IsAdmin |-> IF "IsAdmin" \in data.set THEN data.IsAdmin ELSE row.IsAdmin]

\* The key of the row after the UPDATE: CustomerID is a column like the
\* others, and the body may name it.
UpdatedCustomerId(id, data) ==
    IF "CustomerID" \in data.set THEN data.CustomerID ELSE id

\* PRIMARY KEY: no other row holds the key.
CustomerIdUnique(id, key) == key = id \/ key \notin DOMAIN customers

\* The table with row id replaced by row under key.
Rekeyed(id, key, row) ==
    [c \in (DOMAIN customers \ {id}) \cup {key} |->
        IF c = key THEN row ELSE customers[c]]

\* update_customer, lines 252-260 (behind token_required, lines 95-106):
\* one UPDATE by Username of whatever fields the body names. An empty body
\* is a syntax error of the statement, a failed constraint an IntegrityError:
\* neither is caught.
UpdateCustomer(w, username, header, data) ==
    /\ Idle(w)
    /\ IF ~TokenOk(header)
       THEN End(w, "update_customer", 401, "Unauthenticated", UpdateArgs(username, header, data), {}) /\ UNCHANGED customers
       ELSE IF Unauthorized(username, decode_jwt(header))
       THEN End(w, "update_customer", 403, "Forbidden", UpdateArgs(username, header, data), {}) /\ UNCHANGED customers
       ELSE IF data.set = {}
       THEN End(w, "update_customer", 500, "OperationalError", UpdateArgs(username, header, data), {}) /\ UNCHANGED customers
       ELSE LET id == CustomerByUsername(username)
            IN  IF id = 0
                THEN End(w, "update_customer", 200, "none", UpdateArgs(username, header, data), {}) /\ UNCHANGED customers
                ELSE LET row == UpdatedCustomer(customers[id], data)
                         key == UpdatedCustomerId(id, data)
                     IN  IF /\ WalletCheck(row.WalletBalance)
                            /\ SingleAdmin(row.IsAdmin)
                            /\ UsernameUnique(customers, id, row.Username)
                            /\ CustomerIdUnique(id, key)
                         THEN /\ customers' = Rekeyed(id, key, row)
                              /\ End(w, "update_customer", 200, "none", UpdateArgs(username, header, data), {"update"})
                         ELSE /\ End(w, "update_customer", 500, "IntegrityError", UpdateArgs(username, header, data), {})
                              /\ UNCHANGED customers
    /\ assigned' = assigned \cup DOMAIN customers'
    /\ UNCHANGED <<nextCustomerId, goods, nextGoodId, purchases, issued, now, trace, reviewDb>>

\* SET WalletBalance = ?: the balance overwritten with the amount.
Overwritten(balance, amount) == amount

\* SET WalletBalance = WalletBalance + ? (customers.py 332)
Credited(balance, amount) == balance + amount

\* charge_wallet, lines 317-335 (behind token_required): UPDATE Customers
\* SET WalletBalance = WalletBalance + ? WHERE Username = ?.
ChargeWallet(w, username, header, amount) ==
    /\ Idle(w)
    /\ LET id == CustomerByUsername(username)
       IN  IF ~TokenOk(header)
           THEN End(w, "charge", 401, "Unauthenticated", WalletArgs(username, header, amount), {}) /\ UNCHANGED customers
           ELSE IF Unauthorized(username, decode_jwt(header))
           THEN End(w, "charge", 403, "Forbidden", WalletArgs(username, header, amount), {}) /\ UNCHANGED customers
           ELSE IF amount <= 0
           THEN End(w, "charge", 400, "InvalidAmount", WalletArgs(username, header, amount), {}) /\ UNCHANGED customers
           ELSE IF id = 0
           THEN End(w, "charge", 200, "none", WalletArgs(username, header, amount), {}) /\ UNCHANGED customers
           ELSE /\ customers[id].WalletBalance + amount <= MaxBalance
                /\ customers' = [customers EXCEPT ![id].WalletBalance = Credited(@, amount)]
                /\ End(w, "charge", 200, "none", WalletArgs(username, header, amount), {"credit"})
    /\ UNCHANGED <<nextCustomerId, goods, nextGoodId, purchases, issued, now, trace, reviewDb, assigned>>

\* A balance check that refuses a deduction of the whole balance.
BalanceAbove(wallet_balance, amount) == wallet_balance > amount

\* if wallet_balance >= amount (customers.py 383)
SufficientBalance(wallet_balance, amount) == wallet_balance >= amount

\* deduct_wallet, lines 363-388 up to the balance check (behind
\* token_required): the read of the balance.
DeductBegin(w, username, header, amount) ==
    /\ Idle(w)
    /\ LET id == CustomerByUsername(username)
       IN  IF ~TokenOk(header)
           THEN End(w, "deduct", 401, "Unauthenticated", WalletArgs(username, header, amount), {})
           ELSE IF Unauthorized(username, decode_jwt(header))
           THEN End(w, "deduct", 403, "Forbidden", WalletArgs(username, header, amount), {})
           ELSE IF amount <= 0
           THEN End(w, "deduct", 400, "InvalidAmount", WalletArgs(username, header, amount), {})
           ELSE IF id = 0
           THEN End(w, "deduct", 404, "CustomerNotFound", WalletArgs(username, header, amount), {})
           ELSE IF SufficientBalance(customers[id].WalletBalance, amount)
           THEN req' = [req EXCEPT ![w] =
                   [pc |-> "deduct_update", op |-> "deduct", username |-> username,
                    header |-> header, amount |-> amount,
                    args |-> WalletArgs(username, header, amount)]]
           ELSE End(w, "deduct", 400, "InsufficientBalance", WalletArgs(username, header, amount), {})
    /\ UNCHANGED <<db, issued, now, trace, reviewDb, assigned>>

\* deduct_wallet, lines 384-386: UPDATE Customers SET WalletBalance =
\* WalletBalance - ? WHERE Username = ?. The CHECK's IntegrityError is not
\* caught: the framework answers 500.
DeductUpdate(w) ==
    /\ req[w].pc = "deduct_update"
    /\ LET id == CustomerByUsername(req[w].username)
       IN  IF id = 0
           THEN End(w, "deduct", 200, "none", req[w].args, {}) /\ UNCHANGED customers
           ELSE IF ~WalletCheck(customers[id].WalletBalance - req[w].amount)
           THEN End(w, "deduct", 500, "IntegrityError", req[w].args, {}) /\ UNCHANGED customers
           ELSE /\ customers' = [customers EXCEPT ![id].WalletBalance = @ - req[w].amount]
                /\ End(w, "deduct", 200, "none", req[w].args, {"debit"})
    /\ UNCHANGED <<nextCustomerId, goods, nextGoodId, purchases, issued, now, trace, reviewDb, assigned>>

\* delete_customer, lines 215-221 (behind token_required): the identity
\* check and the read of the customer.
DeleteBegin(w, username, header) ==
    /\ Idle(w)
    /\ IF ~TokenOk(header)
       THEN End(w, "delete", 401, "Unauthenticated", DeleteArgs(username, header), {})
       ELSE IF Unauthorized(username, decode_jwt(header))
       THEN End(w, "delete", 403, "Forbidden", DeleteArgs(username, header), {})
       ELSE IF CustomerByUsername(username) = 0
       THEN End(w, "delete", 404, "CustomerNotFound", DeleteArgs(username, header), {})
       ELSE req' = [req EXCEPT ![w] =
               [pc |-> "delete_row", op |-> "delete", username |-> username,
                header |-> header, args |-> DeleteArgs(username, header)]]
    /\ UNCHANGED <<db, issued, now, trace, reviewDb, assigned>>

\* delete_customer, lines 223-225: DELETE FROM Customers WHERE Username = ?.
\* The connection never turns foreign keys on: the rows of the other tables
\* that refer to the customer stay.
DeleteRow(w) ==
    /\ req[w].pc = "delete_row"
    /\ LET id == CustomerByUsername(req[w].username)
       IN  IF id = 0
           THEN /\ End(w, "delete", 200, "none", req[w].args, {})
                /\ UNCHANGED customers
           ELSE /\ customers' = [c \in DOMAIN customers \ {id} |-> customers[c]]
                /\ End(w, "delete", 200, "none", req[w].args, {"delete"})
    /\ UNCHANGED <<nextCustomerId, goods, nextGoodId, purchases, issued, now, trace, reviewDb, assigned>>

\* ------------------------------------------------------------- inventory.py
\* The add requests that are in progress (each may still insert a row).
AddsInProgress == {w \in Workers : req[w].pc = "add_insert"}

\* add_goods, lines 57-79: the field checks and the read of the existing
\* good (the category is always a valid one here).
AddGoodsBegin(w, name, price, stock) ==
    /\ Idle(w)
    /\ nextGoodId + Cardinality(AddsInProgress) <= MaxGoods
    /\ IF price <= 0
       THEN End(w, "add_goods", 400, "InvalidPrice", NoArgs, {})
       ELSE IF stock < 0
       THEN End(w, "add_goods", 400, "InvalidStock", NoArgs, {})
       ELSE IF GoodByName(name) # 0
       THEN End(w, "add_goods", 400, "GoodExists", NoArgs, {})
       ELSE req' = [req EXCEPT ![w] =
               [pc |-> "add_insert", op |-> "add_goods", name |-> name,
                price |-> price, stock |-> stock]]
    /\ UNCHANGED <<db, issued, now, trace, reviewDb, assigned>>

\* add_goods, lines 81-92: the INSERT. Goods.Name carries no UNIQUE.
AddGoodsInsert(w) ==
    /\ req[w].pc = "add_insert"
    /\ IF PriceCheck(req[w].price) /\ StockCheck(req[w].stock)
       THEN /\ goods' = goods @@ (nextGoodId :>
                   [Name |-> req[w].name, PricePerItem |-> req[w].price,
                    StockCount |-> req[w].stock])
            /\ nextGoodId' = nextGoodId + 1
            /\ End(w, "add_goods", 201, "none", NoArgs, {"insert"})
       ELSE /\ End(w, "add_goods", 500, "IntegrityError", NoArgs, {})
            /\ UNCHANGED <<goods, nextGoodId>>
    /\ UNCHANGED <<customers, nextCustomerId, purchases, issued, now, trace, reviewDb, assigned>>

\* A stock check that refuses a deduction of the whole stock.
StockAtMost(stock_count, quantity) == stock_count <= quantity

\* if stock[0] < quantity_to_deduct (inventory.py 122)
InsufficientStock(stock_count, quantity) == stock_count < quantity

\* deduct_goods, lines 112-123: the quantity check and the read of the stock;
\* the refusal for stock tells the available stock.
DeductGoodsBegin(w, good_id, quantity) ==
    /\ Idle(w)
    /\ IF quantity <= 0
       THEN End(w, "deduct_goods", 400, "InvalidQuantity", StockArgs(good_id, quantity), {})
       ELSE IF good_id \notin DOMAIN goods
       THEN End(w, "deduct_goods", 404, "GoodNotFound", StockArgs(good_id, quantity), {})
       ELSE IF InsufficientStock(goods[good_id].StockCount, quantity)
       THEN EndReporting(w, "deduct_goods", 400, "InsufficientStock",
                         StockArgs(good_id, quantity), {}, goods[good_id].StockCount)
       ELSE req' = [req EXCEPT ![w] =
               [pc |-> "deduct_goods_update", op |-> "deduct_goods",
                good_id |-> good_id, quantity |-> quantity,
                args |-> StockArgs(good_id, quantity)]]
    /\ UNCHANGED <<db, issued, now, trace, reviewDb, assigned>>

\* deduct_goods, lines 125-130: UPDATE Goods SET StockCount = StockCount - ?
\* WHERE GoodID = ?; any exception is answered 500.
DeductGoodsUpdate(w) ==
    /\ req[w].pc = "deduct_goods_update"
    /\ LET id == req[w].good_id
       IN  IF id \notin DOMAIN goods
           THEN End(w, "deduct_goods", 200, "none", req[w].args, {}) /\ UNCHANGED goods
           ELSE IF ~StockCheck(goods[id].StockCount - req[w].quantity)
           THEN End(w, "deduct_goods", 500, "IntegrityError", req[w].args, {}) /\ UNCHANGED goods
           ELSE /\ goods' = [goods EXCEPT ![id].StockCount = @ - req[w].quantity]
                /\ End(w, "deduct_goods", 200, "none", req[w].args, {"stock"})
    /\ UNCHANGED <<customers, nextCustomerId, nextGoodId, purchases, issued, now, trace, reviewDb, assigned>>

\* The fields a PUT /update/<good_id> body can set.
GoodFields == {"Name", "PricePerItem", "StockCount"}
GoodUpdates ==
    {d \in [set : SUBSET GoodFields, Name : GoodNames, PricePerItem : 0..MaxPrice,
            StockCount : (-1)..MaxStock] :
        /\ Cardinality(d.set) <= MaxFields
        /\ "Name" \notin d.set => d.Name = "Laptop"
        /\ "PricePerItem" \notin d.set => d.PricePerItem = 0
        /\ "StockCount" \notin d.set => d.StockCount = 0}

\* The row after UPDATE Goods SET <fields>.
UpdatedGood(row, data) ==
    [Name |-> IF "Name" \in data.set THEN data.Name ELSE row.Name,
     PricePerItem |-> IF "PricePerItem" \in data.set THEN data.PricePerItem
                      ELSE row.PricePerItem,
     StockCount |-> IF "StockCount" \in data.set THEN data.StockCount
                    ELSE row.StockCount]

\* An update that takes an empty body for an update.
SomeFields(data) == FALSE

\* if not data (inventory.py 152)
NoFields(data) == data.set = {}

\* update_goods, lines 150-163: 400 for an empty body, else one UPDATE by
\* GoodID; a failed CHECK is answered 500, a missing row 200.
UpdateGoods(w, good_id, data) ==
    /\ Idle(w)
    /\ IF NoFields(data)
       THEN End(w, "update_goods", 400, "NoFields", GoodUpdateArgs(good_id, data), {}) /\ UNCHANGED goods
       ELSE IF good_id \notin DOMAIN goods
       THEN End(w, "update_goods", 200, "none", GoodUpdateArgs(good_id, data), {}) /\ UNCHANGED goods
       ELSE LET row == UpdatedGood(goods[good_id], data)
            IN  IF PriceCheck(row.PricePerItem) /\ StockCheck(row.StockCount)
                THEN /\ goods' = [goods EXCEPT ![good_id] = row]
                     /\ End(w, "update_goods", 200, "none", GoodUpdateArgs(good_id, data), {"update"})
                ELSE /\ End(w, "update_goods", 500, "IntegrityError", GoodUpdateArgs(good_id, data), {})
                     /\ UNCHANGED goods
    /\ UNCHANGED <<customers, nextCustomerId, nextGoodId, purchases, issued, now, trace, reviewDb, assigned>>

\* ------------------------------------------------------------- reviews.py
\* A moderation that cannot reject.
TwoStatuses == {"Pending", "Accepted"}

\* The statuses moderate_review accepts.
ReviewStatuses == {"Pending", "Accepted", "Rejected"}

\* A rating check that lets 0 through.
RatingUpTo(rating) == rating <= MaxRating

\* 1 <= data["Rating"] <= 5
RatingInRange(rating) == MinRating <= rating /\ rating <= MaxRating

\* get_username_from_customer_id: the Username of the row, "None" without one.
get_username_from_customer_id(customer_id) ==
    IF customer_id \in DOMAIN customers THEN customers[customer_id].Username ELSE "None"

\* A review that starts out accepted.
AcceptedReview(customer_id, good_id, rating, comment) ==
    [CustomerID |-> customer_id, GoodID |-> good_id, Rating |-> rating,
     Comment |-> comment, Status |-> "Accepted", Upvotes |-> 0, Downvotes |-> 0]

\* The row submit_review inserts (lines 96-103): Pending, with no votes.
NewReview(customer_id, good_id, rating, comment) ==
    [CustomerID |-> customer_id, GoodID |-> good_id, Rating |-> rating,
     Comment |-> comment, Status |-> "Pending", Upvotes |-> 0, Downvotes |-> 0]

SubmitsInProgress ==
    {w \in Workers : req[w].pc \in {"submit_customer", "submit_good", "submit_insert"}}

\* submit_review, lines 68-73 (behind token_required): the CustomerID of the
\* body must be the caller's own; a CustomerID no customer has is answered
\* 403 here, as its username is None.
SubmitBegin(w, header, customer_id, good_id, rating) ==
    /\ Idle(w)
    /\ nextReviewId + Cardinality(SubmitsInProgress) <= MaxReviews
    /\ IF ~TokenOk(header)
       THEN End(w, "submit_review", 401, "Unauthenticated",
                SubmitArgs(header, customer_id, good_id, rating), {})
       ELSE IF get_username_from_customer_id(customer_id) # decode_jwt(header)
       THEN End(w, "submit_review", 403, "Forbidden",
                SubmitArgs(header, customer_id, good_id, rating), {})
       ELSE req' = [req EXCEPT ![w] =
               [pc |-> "submit_customer", op |-> "submit_review",
                customer_id |-> customer_id, good_id |-> good_id, rating |-> rating,
                args |-> SubmitArgs(header, customer_id, good_id, rating)]]
    /\ UNCHANGED <<db, issued, now, trace, reviewDb, assigned>>

\* submit_review, lines 83-86: the read of the customer.
SubmitCustomer(w) ==
    /\ req[w].pc = "submit_customer"
    /\ IF req[w].customer_id \notin DOMAIN customers
       THEN End(w, "submit_review", 400, "InvalidCustomer", req[w].args, {})
       ELSE req' = [req EXCEPT ![w].pc = "submit_good"]
    /\ UNCHANGED <<db, issued, now, trace, reviewDb, assigned>>

\* submit_review, lines 88-94: the read of the good, then the rating check.
SubmitGood(w) ==
    /\ req[w].pc = "submit_good"
    /\ IF req[w].good_id \notin DOMAIN goods
       THEN End(w, "submit_review", 400, "InvalidGood", req[w].args, {})
       ELSE IF ~RatingInRange(req[w].rating)
       THEN End(w, "submit_review", 400, "InvalidRating", req[w].args, {})
       ELSE req' = [req EXCEPT ![w].pc = "submit_insert"]
    /\ UNCHANGED <<db, issued, now, trace, reviewDb, assigned>>

\* submit_review, lines 96-105: the INSERT, with an empty comment.
SubmitInsert(w) ==
    /\ req[w].pc = "submit_insert"
    /\ reviews' = reviews @@ (nextReviewId :>
           NewReview(req[w].customer_id, req[w].good_id, req[w].rating, ""))
    /\ nextReviewId' = nextReviewId + 1
    /\ End(w, "submit_review", 201, "none", req[w].args, {"insert"})
    /\ UNCHANGED <<db, issued, now, trace, assigned>>

SubmitRest(w) == SubmitCustomer(w) \/ SubmitGood(w) \/ SubmitInsert(w)

\* A permission check that lets every caller through.
AnyCaller(is_admin, review_owner_id, customer_id) == TRUE

\* is_admin or review_owner_id == data["CustomerID"] (reviews.py 162, 226)
OwnerOrAdmin(is_admin, review_owner_id, customer_id) ==
    is_admin \/ review_owner_id = customer_id

\* update_review, lines 132-146 (behind token_required): the CustomerID of
\* the body must be the caller's own, and the rating in range.
UpdateReviewBegin(w, review_id, header, customer_id, rating, comment) ==
    /\ Idle(w)
    /\ LET a == ReviewArgs(review_id, header, customer_id, rating, comment)
       IN  IF ~TokenOk(header)
           THEN End(w, "update_review", 401, "Unauthenticated", a, {})
           ELSE IF get_username_from_customer_id(customer_id) # decode_jwt(header)
           THEN End(w, "update_review", 403, "Forbidden", a, {})
           ELSE IF ~RatingInRange(rating)
           THEN End(w, "update_review", 400, "InvalidRating", a, {})
           ELSE req' = [req EXCEPT ![w] =
                   [pc |-> "update_review_read", op |-> "update_review",
                    review_id |-> review_id, customer_id |-> customer_id,
                    rating |-> rating, comment |-> comment, args |-> a]]
    /\ UNCHANGED <<db, issued, now, trace, reviewDb, assigned>>

\* update_review, lines 148-152: the read of the review's owner.
UpdateReviewRead(w) ==
    /\ req[w].pc = "update_review_read"
    /\ IF req[w].review_id \notin DOMAIN reviews
       THEN End(w, "update_review", 404, "ReviewNotFound", req[w].args, {})
       ELSE req' = [req EXCEPT ![w] =
               [pc |-> "update_review_customer", op |-> "update_review",
                review_id |-> req[w].review_id, customer_id |-> req[w].customer_id,
                rating |-> req[w].rating, comment |-> req[w].comment,
                review_owner_id |-> reviews[req[w].review_id].CustomerID,
                args |-> req[w].args]]
    /\ UNCHANGED <<db, issued, now, trace, reviewDb, assigned>>

\* update_review, lines 154-164: the read of the caller's IsAdmin and the
\* permission check.
UpdateReviewCustomer(w) ==
    /\ req[w].pc = "update_review_customer"
    /\ IF req[w].customer_id \notin DOMAIN customers
       THEN End(w, "update_review", 404, "CustomerNotFound", req[w].args, {})
       ELSE IF ~OwnerOrAdmin(customers[req[w].customer_id].IsAdmin,
                             req[w].review_owner_id, req[w].customer_id)
       THEN End(w, "update_review", 403, "PermissionDenied", req[w].args, {})
       ELSE req' = [req EXCEPT ![w].pc = "update_review_write"]
    /\ UNCHANGED <<db, issued, now, trace, reviewDb, assigned>>

\* update_review, lines 166-175: UPDATE Reviews SET Rating = ?, Comment = ?
\* WHERE ReviewID = ?; 200 also when the row is gone.
UpdateReviewWrite(w) ==
    /\ req[w].pc = "update_review_write"
    /\ LET id == req[w].review_id
       IN  IF id \in DOMAIN reviews
           THEN /\ reviews' = [reviews EXCEPT ![id].Rating = req[w].rating,
                                              ![id].Comment = req[w].comment]
                /\ End(w, "update_review", 200, "none", req[w].args, {"update"})
           ELSE /\ End(w, "update_review", 200, "none", req[w].args, {})
                /\ UNCHANGED reviews
    /\ UNCHANGED <<db, issued, now, trace, nextReviewId, assigned>>

UpdateReviewRest(w) ==
    UpdateReviewRead(w) \/ UpdateReviewCustomer(w) \/ UpdateReviewWrite(w)

\* delete_review, lines 202-209 (behind token_required): the CustomerID of
\* the body must be the caller's own.
DeleteReviewBegin(w, review_id, header, customer_id) ==
    /\ Idle(w)
    /\ LET a == ReviewArgs(review_id, header, customer_id, 0, "")
       IN  IF ~TokenOk(header)
           THEN End(w, "delete_review", 401, "Unauthenticated", a, {})
           ELSE IF get_username_from_customer_id(customer_id) # decode_jwt(header)
           THEN End(w, "delete_review", 403, "Forbidden", a, {})
           ELSE req' = [req EXCEPT ![w] =
                   [pc |-> "delete_review_customer", op |-> "delete_review",
                    review_id |-> review_id, customer_id |-> customer_id, args |-> a]]
    /\ UNCHANGED <<db, issued, now, trace, reviewDb, assigned>>

\* delete_review, lines 215-221: the read of the caller's IsAdmin.
DeleteReviewCustomer(w) ==
    /\ req[w].pc = "delete_review_customer"
    /\ IF req[w].customer_id \notin DOMAIN customers
       THEN End(w, "delete_review", 404, "CustomerNotFound", req[w].args, {})
       ELSE IF customers[req[w].customer_id].IsAdmin
       THEN req' = [req EXCEPT ![w].pc = "delete_review_row"]
       ELSE req' = [req EXCEPT ![w].pc = "delete_review_owner"]
    /\ UNCHANGED <<db, issued, now, trace, reviewDb, assigned>>

\* delete_review, lines 226-230: the read of the review's owner, for a
\* caller who is no admin.
DeleteReviewOwner(w) ==
    /\ req[w].pc = "delete_review_owner"
    /\ IF \/ req[w].review_id \notin DOMAIN reviews
          \/ ~OwnerOrAdmin(FALSE, reviews[req[w].review_id].CustomerID, req[w].customer_id)
       THEN End(w, "delete_review", 403, "PermissionDenied", req[w].args, {})
       ELSE req' = [req EXCEPT ![w].pc = "delete_review_row"]
    /\ UNCHANGED <<db, issued, now, trace, reviewDb, assigned>>

\* delete_review, lines 223-224 and 232-235: DELETE FROM Reviews WHERE
\* ReviewID = ?; 200 also when the row is gone.
DeleteReviewRow(w) ==
    /\ req[w].pc = "delete_review_row"
    /\ LET id == req[w].review_id
       IN  IF id \in DOMAIN reviews
           THEN /\ reviews' = [r \in DOMAIN reviews \ {id} |-> reviews[r]]
                /\ End(w, "delete_review", 200, "none", req[w].args, {"delete"})
           ELSE /\ End(w, "delete_review", 200, "none", req[w].args, {})
                /\ UNCHANGED reviews
    /\ UNCHANGED <<db, issued, now, trace, nextReviewId, assigned>>

DeleteReviewRest(w) ==
    DeleteReviewCustomer(w) \/ DeleteReviewOwner(w) \/ DeleteReviewRow(w)

\* A moderation that asks nobody.
EveryoneModerates(is_admin) == TRUE

\* if not is_admin: 403 (reviews.py 381-383)
MayModerate(is_admin) == is_admin

\* moderate_review, lines 367-383 (no token_required): the status must be
\* one of the three, and the customer the body names an admin. The
\* Authorization header is carried but never looked at.
ModerateBegin(w, header, review_id, customer_id, status) ==
    /\ Idle(w)
    /\ LET a == ModerateArgs(review_id, customer_id, status)
       IN  IF status \notin ReviewStatuses
           THEN End(w, "moderate", 400, "InvalidStatus", a, {})
           ELSE IF customer_id \notin DOMAIN customers
           THEN End(w, "moderate", 404, "CustomerNotFound", a, {})
           ELSE IF ~MayModerate(customers[customer_id].IsAdmin)
           THEN End(w, "moderate", 403, "Forbidden", a, {})
           ELSE req' = [req EXCEPT ![w] =
                   [pc |-> "moderate_write", op |-> "moderate", header |-> header,
                    review_id |-> review_id, customer_id |-> customer_id,
                    status |-> status, args |-> a]]
    /\ UNCHANGED <<db, issued, now, trace, reviewDb, assigned>>

\* moderate_review, lines 385-392: UPDATE Reviews SET Status = ? WHERE
\* ReviewID = ?; 200 also when no review has the id.
ModerateWrite(w) ==
    /\ req[w].pc = "moderate_write"
    /\ LET id == req[w].review_id
       IN  IF id \in DOMAIN reviews
           THEN /\ reviews' = [reviews EXCEPT ![id].Status = req[w].status]
                /\ End(w, "moderate", 200, "none", req[w].args, {"update"})
           ELSE /\ End(w, "moderate", 200, "none", req[w].args, {})
                /\ UNCHANGED reviews
    /\ UNCHANGED <<db, issued, now, trace, nextReviewId, assigned>>

\* SET Upvotes = 1: the count overwritten.
FirstVote(votes) == 1

\* SET Upvotes = Upvotes + 1 (reviews.py 465, 497)
OneMoreVote(votes) == votes + 1

\* upvote_review and downvote_review, lines 460-464 and 492-496: the read of
\* the review. column is Upvotes or Downvotes.
VoteBegin(w, review_id, column) ==
    /\ Idle(w)
    /\ review_id \in DOMAIN reviews => reviews[review_id][column] < MaxVotes
    /\ IF review_id \notin DOMAIN reviews
       THEN End(w, column, 404, "ReviewNotFound", VoteArgs(review_id), {})
       ELSE req' = [req EXCEPT ![w] =
               [pc |-> "vote_write", op |-> column, review_id |-> review_id,
                args |-> VoteArgs(review_id)]]
    /\ UNCHANGED <<db, issued, now, trace, reviewDb, assigned>>

\* upvote_review and downvote_review, lines 466-468 and 498-500: the UPDATE
\* that adds one; 200 also when the row is gone.
VoteWrite(w) ==
    /\ req[w].pc = "vote_write"
    /\ LET id == req[w].review_id
           column == req[w].op
       IN  IF id \in DOMAIN reviews
           THEN /\ reviews' = [reviews EXCEPT
                       ![id][column] = OneMoreVote(reviews[id][column])]
                /\ End(w, column, 200, "none", req[w].args, {"update"})
           ELSE /\ End(w, column, 200, "none", req[w].args, {})
                /\ UNCHANGED reviews
    /\ UNCHANGED <<db, issued, now, trace, nextReviewId, assigned>>

\* ------------------------------------------------------------- the program
GoodIds == 1..(MaxGoods + 1)

\* The observer switched off, and switched on with the tables of the start.
NoTrace == [on |-> FALSE, customers |-> <<>>, goods |-> <<>>]
Trace(customers0, goods0) == [on |-> TRUE, customers |-> customers0, goods |-> goods0]

\* A worker that has handled no request yet.
Fresh ==
    [pc |-> "idle", op |-> "none", status |-> 0, err |-> "none", args |-> NoArgs,
     eff |-> {}]

\* The database create_database leaves: every table empty.
Init ==
    /\ customers = <<>>
    /\ nextCustomerId = 1
    /\ goods = <<>>
    /\ nextGoodId = 1
    /\ purchases = <<>>
    /\ issued = {}
    /\ now = 0
    /\ reviews = <<>>
    /\ nextReviewId = 1
    /\ assigned = DOMAIN customers
    /\ req = [w \in Workers |-> Fresh]
    /\ trace = NoTrace

\* Time passes.
Tick ==
    /\ now < MaxTime
    /\ now' = now + 1
    /\ UNCHANGED <<db, issued, req, trace, reviewDb, assigned>>

\* What clients send that passes the checks on the input alone: a positive
\* amount or quantity, at least one field to update.
ValidAmounts == 1..MaxBalance
AnyAmounts == (-1)..MaxBalance
AnyQuantities == (-1)..MaxQuantity
ValidQuantities == 1..MaxQuantity
ValidCustomerUpdates == {d \in CustomerUpdates : d.set # {}}
ValidGoodUpdates == {d \in GoodUpdates : d.set # {}}

\* The steps of a handler after its first one.
RegisterRest(w) == RegisterAdminCheck(w) \/ RegisterInsert(w)
SaleRest(w) == SaleReadCustomer(w) \/ SaleDebit(w) \/ SaleStock(w) \/ SaleInsert(w)

\* Every handler, every worker, any input: requests interleave statement by
\* statement.
Next ==
    \E w \in Workers :
        \/ \E u \in RegisterNames, pw \in Passwords, a \in BOOLEAN :
               RegisterBegin(w, u, pw, a)
        \/ RegisterRest(w)
        \/ \E u \in Usernames, pw \in Passwords : Login(w, u, pw)
        \/ \E u \in Usernames, h \in Headers, d \in CustomerUpdates :
               UpdateCustomer(w, u, h, d)
        \/ \E u \in Usernames, h \in Headers, a \in Amounts : ChargeWallet(w, u, h, a)
        \/ \E u \in Usernames, h \in Headers, a \in Amounts : DeductBegin(w, u, h, a)
        \/ DeductUpdate(w)
        \/ \E n \in GoodNames, p \in 0..MaxPrice, s \in (-1)..MaxStock :
               AddGoodsBegin(w, n, p, s)
        \/ AddGoodsInsert(w)
        \/ \E g \in GoodIds, q \in Quantities : DeductGoodsBegin(w, g, q)
        \/ DeductGoodsUpdate(w)
        \/ \E g \in GoodIds, d \in GoodUpdates : UpdateGoods(w, g, d)
        \/ \E u \in Usernames, n \in GoodNames, q \in Quantities, h \in Headers :
               SaleBegin(w, u, n, q, h)
        \/ SaleRest(w)
        \/ \E u \in Usernames, h \in Headers : DeleteBegin(w, u, h)
        \/ DeleteRow(w)
        \/ Tick

Spec == Init /\ [][Next]_vars

\* A shop in business: alice registered and logged in, her wallet charged,
\* the Laptop on sale. bob is not a customer and no Phone is in the catalog.
Shop(balances, prices, stocks) ==
    /\ \E a \in balances :
           customers = (1 :> [Username |-> "alice", Password |-> "pw",
                              WalletBalance |-> a, IsAdmin |-> FALSE])
    /\ nextCustomerId = 2
    /\ \E p \in prices, s \in stocks :
           goods = (1 :> [Name |-> "Laptop", PricePerItem |-> p, StockCount |-> s])
    /\ nextGoodId = 2
    /\ purchases = <<>>
    /\ issued = {Token("alice", TokenHours * TicksPerHour)}
    /\ now = 0
    /\ reviews = <<>>
    /\ nextReviewId = 1
    /\ assigned = DOMAIN customers
    /\ req = [w \in Workers |-> Fresh]

\* The sale pipeline among the requests that touch the same rows: purchases
\* with any input and any header, wallet and stock deductions.
InitSales == Shop(0..MaxBalance, {1}, Stocks) /\ trace = NoTrace

NextSales ==
    \E w \in Workers :
        \/ \E u \in Usernames, n \in GoodNames, q \in Quantities, h \in Headers :
               SaleBegin(w, u, n, q, h)
        \/ SaleRest(w)
        \/ \E u \in Usernames, h \in issued, a \in ValidAmounts : DeductBegin(w, u, h, a)
        \/ DeductUpdate(w)
        \/ \E g \in GoodIds, q \in ValidQuantities : DeductGoodsBegin(w, g, q)
        \/ DeductGoodsUpdate(w)

SpecSales == InitSales /\ [][NextSales]_vars

\* The account store: registration, profile update, wallet, purchase. alice
\* is registered and holds a token; anyone may register beside her.
InitAccounts ==
    /\ \E a \in 0..MaxBalance :
           customers = (1 :> [Username |-> "alice", Password |-> "pw",
                              WalletBalance |-> a, IsAdmin |-> FALSE])
    /\ nextCustomerId = 2
    /\ goods = (1 :> [Name |-> "Laptop", PricePerItem |-> 1, StockCount |-> MaxStock])
    /\ nextGoodId = 2
    /\ purchases = <<>>
    /\ issued = {Token("alice", TokenHours * TicksPerHour)}
    /\ now = 0
    /\ reviews = <<>>
    /\ nextReviewId = 1
    /\ assigned = DOMAIN customers
    /\ req = [w \in Workers |-> Fresh]
    /\ trace = NoTrace

AccountUpdates ==
    {d \in CustomerUpdates : d.set \in {{"Username"}, {"WalletBalance"}}}

NextAccounts ==
    \E w \in Workers :
        \/ \E u \in Usernames : RegisterBegin(w, u, "pw", FALSE)
        \/ RegisterInsert(w)
        \/ \E u \in Usernames, h \in issued, d \in AccountUpdates :
               UpdateCustomer(w, u, h, d)
        \/ \E u \in Usernames, h \in issued, a \in ValidAmounts : ChargeWallet(w, u, h, a)
        \/ \E u \in Usernames, h \in issued, a \in ValidAmounts : DeductBegin(w, u, h, a)
        \/ DeductUpdate(w)
        \/ \E u \in Usernames, q \in ValidQuantities : SaleBegin(w, u, "Laptop", q, NoHeader)
        \/ SaleRest(w)

SpecAccounts == InitAccounts /\ [][NextAccounts]_vars

\* The catalog store: add, deduct, update, purchase. alice can pay.
InitCatalog ==
    /\ customers = (1 :> [Username |-> "alice", Password |-> "pw",
                          WalletBalance |-> MaxBalance, IsAdmin |-> FALSE])
    /\ nextCustomerId = 2
    /\ goods = <<>>
    /\ nextGoodId = 1
    /\ purchases = <<>>
    /\ issued = {}
    /\ now = 0
    /\ reviews = <<>>
    /\ nextReviewId = 1
    /\ assigned = DOMAIN customers
    /\ req = [w \in Workers |-> Fresh]
    /\ trace = NoTrace

NextCatalog ==
    \E w \in Workers :
        \/ \E n \in GoodNames, p \in Prices, s \in Stocks : AddGoodsBegin(w, n, p, s)
        \/ AddGoodsInsert(w)
        \/ \E g \in GoodIds, q \in ValidQuantities : DeductGoodsBegin(w, g, q)
        \/ DeductGoodsUpdate(w)
        \/ \E g \in GoodIds, d \in GoodUpdates : UpdateGoods(w, g, d)
        \/ \E n \in GoodNames, q \in ValidQuantities : SaleBegin(w, "alice", n, q, NoHeader)
        \/ SaleRest(w)

SpecCatalog == InitCatalog /\ [][NextCatalog]_vars

\* Registration, login and profile update alone, from the empty database.
\* Bodies that leave the key alone.
ColumnUpdates == {d \in ValidCustomerUpdates : "CustomerID" \notin d.set}

NextAdmin ==
    \E w \in Workers :
        \/ \E u \in Usernames, a \in BOOLEAN : RegisterBegin(w, u, "pw", a)
        \/ RegisterRest(w)
        \/ \E u \in Usernames, pw \in Passwords : Login(w, u, pw)
        \/ \E u \in Usernames, h \in issued, d \in ColumnUpdates :
               UpdateCustomer(w, u, h, d)

SpecAdmin == Init /\ [][NextAdmin]_vars

\* One request at a time: a single worker handles every request from its
\* first statement to its response before the next one begins.
FirstWorker == CHOOSE w \in Workers : \A v \in Workers : w <= v

InitSerial ==
    /\ Shop(0..MaxBalance, Prices, Stocks)
    /\ trace = Trace(customers, goods)

NextSerial ==
    \E w \in {FirstWorker} :
        \/ \E u \in Usernames, n \in GoodNames, q \in Quantities :
               SaleBegin(w, u, n, q, NoHeader)
        \/ SaleRest(w)
        \/ RegisterBegin(w, "bob", "pw", FALSE)
        \/ RegisterInsert(w)
        \/ \E u \in Usernames : Login(w, u, "pw")
        \/ \E h \in issued, a \in AnyAmounts : ChargeWallet(w, h.Username, h, a)
        \/ \E h \in issued, a \in AnyAmounts : DeductBegin(w, h.Username, h, a)
        \/ DeductUpdate(w)
        \/ \E g \in GoodIds, q \in ValidQuantities : DeductGoodsBegin(w, g, q)
        \/ DeductGoodsUpdate(w)

SpecSerial == InitSerial /\ [][NextSerial]_vars

\* Requests at the same time on the same rows: every worker handles one
\* request on alice's wallet or on the Laptop's stock, and the statements of
\* the requests interleave.
InitConcurrent ==
    /\ Shop(0..(NumWorkers * MaxQuantity), {1}, Stocks)
    /\ trace = Trace(customers, goods)

NextConcurrent ==
    \E w \in Workers :
        \/ \E q \in ValidQuantities :
               req[w].op = "none" /\ SaleBegin(w, "alice", "Laptop", q, NoHeader)
        \/ SaleRest(w)
        \/ \E h \in issued, a \in ValidAmounts :
               req[w].op = "none" /\ ChargeWallet(w, "alice", h, a)
        \/ \E h \in issued, a \in ValidAmounts :
               req[w].op = "none" /\ DeductBegin(w, "alice", h, a)
        \/ DeductUpdate(w)
        \/ \E q \in ValidQuantities :
               req[w].op = "none" /\ DeductGoodsBegin(w, 1, q)
        \/ DeductGoodsUpdate(w)

SpecConcurrent == InitConcurrent /\ [][NextConcurrent]_vars

\* The protected routes of the account store: alice and bob are registered
\* and each holds a token; either token is sent with requests on either
\* account.
InitAuth ==
    /\ customers = (1 :> [Username |-> "alice", Password |-> "pw",
                          WalletBalance |-> 1, IsAdmin |-> FALSE])
                   @@ (2 :> [Username |-> "bob", Password |-> "pw",
                             WalletBalance |-> 1, IsAdmin |-> FALSE])
    /\ nextCustomerId = 3
    /\ goods = (1 :> [Name |-> "Laptop", PricePerItem |-> 1, StockCount |-> MaxStock])
    /\ nextGoodId = 2
    /\ purchases = <<>>
    /\ issued = {Token(u, TokenHours * TicksPerHour) : u \in Usernames}
    /\ now = 0
    /\ reviews = <<>>
    /\ nextReviewId = 1
    /\ assigned = DOMAIN customers
    /\ req = [w \in Workers |-> Fresh]
    /\ trace = Trace(customers, goods)

\* Profile updates that rename the customer or empty the wallet.
RenameOrEmpty == {d \in AccountUpdates : d.WalletBalance = 0}

NextAuth ==
    \E w \in Workers :
        \/ \E u \in Usernames, h \in issued, d \in RenameOrEmpty :
               UpdateCustomer(w, u, h, d)
        \/ \E u \in Usernames, h \in issued : ChargeWallet(w, u, h, 1)
        \/ \E u \in Usernames, h \in issued : DeductBegin(w, u, h, 1)
        \/ DeductUpdate(w)
        \/ \E u \in Usernames, h \in issued : DeleteBegin(w, u, h)
        \/ DeleteRow(w)

SpecAuth == InitAuth /\ [][NextAuth]_vars

\* Tokens over time: alice logs in at any time, time passes, and the
\* protected routes are called with any header, one request at a time.
InitTokens ==
    /\ customers = (1 :> [Username |-> "alice", Password |-> "pw",
                          WalletBalance |-> 1, IsAdmin |-> FALSE])
    /\ nextCustomerId = 2
    /\ goods = <<>>
    /\ nextGoodId = 1
    /\ purchases = <<>>
    /\ issued = {}
    /\ now = 0
    /\ reviews = <<>>
    /\ nextReviewId = 1
    /\ assigned = DOMAIN customers
    /\ req = [w \in Workers |-> Fresh]
    /\ trace = Trace(customers, goods)

\* The profile update that empties the wallet.
EmptyWallet == CHOOSE d \in AccountUpdates : d.set = {"WalletBalance"} /\ d.WalletBalance = 0

NextTokens ==
    \E w \in {FirstWorker} :
        \/ \E u \in Usernames, pw \in Passwords : Login(w, u, pw)
        \/ Tick
        \/ \E u \in Usernames, h \in Headers :
               UpdateCustomer(w, u, h, EmptyWallet)
        \/ \E u \in Usernames, h \in Headers : ChargeWallet(w, u, h, 1)
        \/ \E u \in Usernames, h \in Headers : DeductBegin(w, u, h, 1)
        \/ DeductUpdate(w)
        \/ \E u \in Usernames, h \in Headers : DeleteBegin(w, u, h)
        \/ DeleteRow(w)

SpecTokens == InitTokens /\ [][NextTokens]_vars

\* Stock deductions one at a time on a catalog of two goods, with any good
\* id (the one after the last is unknown) and any quantity.
InitStock ==
    /\ customers = <<>>
    /\ nextCustomerId = 1
    /\ \E s, t \in Stocks :
           goods = (1 :> [Name |-> "Laptop", PricePerItem |-> 1, StockCount |-> s])
                   @@ (2 :> [Name |-> "Phone", PricePerItem |-> 1, StockCount |-> t])
    /\ nextGoodId = 3
    /\ purchases = <<>>
    /\ issued = {}
    /\ now = 0
    /\ reviews = <<>>
    /\ nextReviewId = 1
    /\ assigned = DOMAIN customers
    /\ req = [w \in Workers |-> Fresh]
    /\ trace = Trace(customers, goods)

NextStock ==
    \E w \in {FirstWorker} :
        \/ \E g \in 1..nextGoodId, q \in AnyQuantities : DeductGoodsBegin(w, g, q)
        \/ DeductGoodsUpdate(w)

SpecStock == InitStock /\ [][NextStock]_vars

\* What a handler does to a wallet balance and a stock count when it runs
\* from its first statement to its last with no other request in between.
\* charge_wallet, lines 332-335
SerialCharge(s, amount) ==
    [balance |-> s.balance + amount, stock |-> s.stock, err |-> "none"]

\* deduct_wallet, lines 377-388
SerialDeduct(s, amount) ==
    IF s.balance >= amount
    THEN [balance |-> s.balance - amount, stock |-> s.stock, err |-> "none"]
    ELSE [balance |-> s.balance, stock |-> s.stock, err |-> "InsufficientBalance"]

\* deduct_goods, lines 118-128
SerialDeductGoods(s, quantity) ==
    IF s.stock < quantity
    THEN [balance |-> s.balance, stock |-> s.stock, err |-> "InsufficientStock"]
    ELSE [balance |-> s.balance, stock |-> s.stock - quantity, err |-> "none"]

\* make_sale, lines 136-162, for a customer and a good that exist
SerialSale(s, price_per_item, quantity) ==
    IF s.stock < quantity
    THEN [balance |-> s.balance, stock |-> s.stock, err |-> "InsufficientStock"]
    ELSE IF s.balance < price_per_item * quantity
    THEN [balance |-> s.balance, stock |-> s.stock, err |-> "InsufficientFunds"]
    ELSE [balance |-> s.balance - price_per_item * quantity,
          stock |-> s.stock - quantity, err |-> "none"]

\* ------------------------------------------------------------- properties
Ended(w, op) == req[w].pc = "idle" /\ req[w].op = op

\* C3: in every reachable state every customer's wallet balance is >= 0,
\* whatever the interleaving of register, charge, deduct, profile update and
\* purchase requests.
WalletNonNegative ==
    \A c \in DOMAIN customers : customers[c].WalletBalance >= 0

\* C3's case: two requests both passed their balance check, and the write of
\* the second one was refused by the table's CHECK with the wallet empty.
WalletOverdraftRefused ==
    \E w \in Workers :
        /\ req[w].pc = "idle"
        /\ req[w].op \in {"deduct", "sale"}
        /\ req[w].err = "IntegrityError"
        /\ req[w].eff = {}
        /\ \E c \in DOMAIN customers : customers[c].WalletBalance = 0

\* C4: in every reachable state every good's stock count is >= 0, whatever
\* the interleaving of add, deduct, update and purchase requests.
StockNonNegative ==
    \A g \in DOMAIN goods : goods[g].StockCount >= 0

\* C4's case: a stock write that would go below 0 was refused by the CHECK.
StockOverdrawRefused ==
    \E w \in Workers :
        /\ req[w].pc = "idle"
        /\ req[w].op \in {"deduct_goods", "sale"}
        /\ req[w].err = "IntegrityError"
        /\ \E g \in DOMAIN goods : goods[g].StockCount = 0

\* C9: in every reachable state at most one customer has IsAdmin = true.
AtMostOneAdmin ==
    Cardinality({c \in DOMAIN customers : customers[c].IsAdmin}) <= 1

\* C1: a purchase request that has ended has applied all three of its
\* effects (wallet debit, stock decrement, ledger row) or none of them.
SaleAllOrNothing ==
    \A w \in Workers :
        Ended(w, "sale") => req[w].eff \in {{}, {"debit", "stock", "ledger"}}

\* The answers of a purchase that failed one of its checks.
SaleFailures ==
    {"InvalidQuantity", "GoodNotFound", "CustomerNotFound", "InsufficientStock",
     "InsufficientFunds"}

\* C6: a purchase request that fails a validation check (bad quantity,
\* unknown good, unknown customer, insufficient stock, insufficient funds)
\* leaves every wallet balance, every stock count and the ledger unchanged:
\* none of its steps, up to and including the one that answers the failure,
\* writes to a table.
SaleFailureWritesNothing ==
    [][\A w \in Workers :
          (/\ req'[w] # req[w]
           /\ req'[w].op = "sale"
           /\ \/ req'[w].pc \in {"sale_customer", "sale_debit"}
              \/ req'[w].pc = "idle" /\ req'[w].err \in SaleFailures)
          => db' = db]_vars

\* C6's case: a purchase was refused for insufficient funds, after it passed
\* the checks before that one, while another request is in progress.
SaleRefusedForFunds ==
    \E w \in Workers :
        /\ Ended(w, "sale")
        /\ req[w].err = "InsufficientFunds"
        /\ \E v \in Workers : req[v].pc # "idle"

\* C10: a purchase debits a wallet only when its request carries a valid
\* token whose identity is the customer it names.
SaleDebitNeedsToken ==
    \A w \in Workers :
        (req[w].pc \in {"sale_stock", "sale_insert"} /\ "debit" \in req[w].eff)
            => (TokenOk(req[w].header) /\ decode_jwt(req[w].header) = req[w].username)

\* The check a purchase fails first when its checks run in the order
\* quantity, good exists, customer exists, stock, funds ("none" when it
\* passes them all), on the tables as they are.
FirstFailure(a) ==
    LET g == GoodByName(a.good_name)
        c == CustomerByUsername(a.username)
    IN  IF a.quantity <= 0 THEN "InvalidQuantity"
        ELSE IF g = 0 THEN "GoodNotFound"
        ELSE IF c = 0 THEN "CustomerNotFound"
        ELSE IF goods[g].StockCount < a.quantity THEN "InsufficientStock"
        ELSE IF customers[c].WalletBalance < goods[g].PricePerItem * a.quantity
        THEN "InsufficientFunds"
        ELSE "none"

\* The same with the checks in the order quantity, good exists, stock,
\* customer exists, funds.
FirstFailureStockFirst(a) ==
    LET g == GoodByName(a.good_name)
        c == CustomerByUsername(a.username)
    IN  IF a.quantity <= 0 THEN "InvalidQuantity"
        ELSE IF g = 0 THEN "GoodNotFound"
        ELSE IF goods[g].StockCount < a.quantity THEN "InsufficientStock"
        ELSE IF c = 0 THEN "CustomerNotFound"
        ELSE IF customers[c].WalletBalance < goods[g].PricePerItem * a.quantity
        THEN "InsufficientFunds"
        ELSE "none"

\* The step of worker w that settles the checks of a purchase: it answers a
\* failure, or it goes on to the first write.
SaleChecksSettled(w) ==
    /\ req'[w] # req[w]
    /\ req[w].pc \in {"idle", "sale_customer"}
    /\ req'[w].op = "sale"
    /\ req'[w].pc \in {"idle", "sale_debit"}

SaleCheckResult(w) == IF req'[w].pc = "sale_debit" THEN "none" ELSE req'[w].err

\* C8: a purchase run alone reports the first failing check in the order
\* quantity, good exists, customer exists, stock, funds: a request naming an
\* unknown customer and more than the stock fails with CustomerNotFound.
SaleReportsFirstFailure ==
    [][\A w \in Workers :
          SaleChecksSettled(w) => SaleCheckResult(w) = FirstFailure(req'[w].args)]_vars

\* C8 as the code has it: a purchase run alone reports the first failing
\* check in the order quantity, good exists, stock, customer exists, funds,
\* and goes on to its writes exactly when none fails.
SaleReportsFirstFailureStockFirst ==
    [][\A w \in Workers :
          SaleChecksSettled(w) =>
              SaleCheckResult(w) = FirstFailureStockFirst(req'[w].args)]_vars

\* C8's case: a request that names an unknown customer and asks for more
\* than the stock has been answered InsufficientStock.
UnknownCustomerToldInsufficientStock ==
    \E w \in Workers :
        /\ Ended(w, "sale")
        /\ req[w].err = "InsufficientStock"
        /\ CustomerByUsername(req[w].args.username) = 0
        /\ GoodByName(req[w].args.good_name) # 0
        /\ goods[GoodByName(req[w].args.good_name)].StockCount < req[w].args.quantity

\* C7: a purchase run alone that succeeds decreases the customer's balance
\* by price * quantity, then the good's stock by quantity, then appends one
\* ledger row with the customer id, the good id, the quantity and
\* price * quantity, and each of these steps changes nothing else; a
\* purchase is answered 200 only after the three of them.
SaleExactEffect ==
    [][\A w \in Workers :
          LET a == req[w].args
              c == CustomerByUsername(a.username)
              g == GoodByName(a.good_name)
          IN  /\ (req'[w].pc = "sale_stock" /\ req'[w] # req[w]) =>
                    /\ req[w].pc = "sale_debit"
                    /\ customers' = [customers EXCEPT ![c].WalletBalance =
                                        @ - goods[g].PricePerItem * a.quantity]
                    /\ UNCHANGED <<nextCustomerId, goods, nextGoodId, purchases>>
              /\ (req'[w].pc = "sale_insert" /\ req'[w] # req[w]) =>
                    /\ req[w].pc = "sale_stock"
                    /\ goods' = [goods EXCEPT ![g].StockCount = @ - a.quantity]
                    /\ UNCHANGED <<customers, nextCustomerId, nextGoodId, purchases>>
              /\ (req'[w].pc = "idle" /\ req'[w].op = "sale" /\ req'[w].status = 200
                    /\ req'[w] # req[w]) =>
                    /\ req[w].pc = "sale_insert"
                    /\ purchases' = Append(purchases,
                           [CustomerID |-> c, GoodID |-> g, Quantity |-> a.quantity,
                            TotalAmount |-> goods[g].PricePerItem * a.quantity])
                    /\ UNCHANGED <<customers, nextCustomerId, goods, nextGoodId>>]_vars

\* C7's case: with two customers registered, a purchase of more than one
\* item has succeeded and its row is the last of the ledger.
SaleOfSeveralSucceeded ==
    \E w \in Workers :
        /\ Cardinality(DOMAIN customers) > 1
        /\ Ended(w, "sale")
        /\ req[w].status = 200
        /\ req[w].args.quantity > 1
        /\ Len(purchases) > 0
        /\ purchases[Len(purchases)].Quantity = req[w].args.quantity

\* The orders in which the workers' requests can run one after the other.
Orders ==
    {o \in [1..NumWorkers -> Workers] : \A i, j \in 1..NumWorkers : o[i] = o[j] => i = j}

\* One request run alone on a balance and a stock.
SerialStep(s, r) ==
    IF r.op = "charge" THEN SerialCharge(s, r.args.amount)
    ELSE IF r.op = "deduct" THEN SerialDeduct(s, r.args.amount)
    ELSE IF r.op = "deduct_goods" THEN SerialDeductGoods(s, r.args.quantity)
    ELSE SerialSale(s, trace.goods[1].PricePerItem, r.args.quantity)

\* The workers' requests run alone one after the other, from the i-th of
\* the order on: the final balance and stock and every request's answer.
RECURSIVE SerialRun(_, _, _)
SerialRun(o, i, s) ==
    IF i > NumWorkers THEN s
    ELSE LET t == SerialStep(s, req[o[i]])
         IN  SerialRun(o, i + 1,
                 [balance |-> t.balance, stock |-> t.stock,
                  err |-> [s.err EXCEPT ![o[i]] = t.err]])

AllAnswered == \A w \in Workers : req[w].pc = "idle" /\ req[w].op # "none"

\* C5: when requests on the same customer row and the same good row have
\* run concurrently and all are answered, the final balance, the final
\* stock and every request's answer are those of the requests run alone one
\* after the other in some order.
SerialEquivalent ==
    AllAnswered =>
        \E o \in Orders :
            LET r == SerialRun(o, 1, [balance |-> trace.customers[1].WalletBalance,
                                      stock |-> trace.goods[1].StockCount,
                                      err |-> [w \in Workers |-> "none"]])
            IN  /\ r.balance = customers[1].WalletBalance
                /\ r.stock = goods[1].StockCount
                /\ \A w \in Workers : r.err[w] = req[w].err

\* C2: K concurrent purchases of the same quantity q of one good with stock
\* S < K * q, by a customer with funds for all of them, end with exactly
\* S \div q successes, every other answer InsufficientStock, and a final
\* stock of S - successes * q.
ConcurrentPurchasesExact ==
    LET S == trace.goods[1].StockCount
        q == req[FirstWorker].args.quantity
        won == {w \in Workers : req[w].status = 200}
    IN  (/\ \A w \in Workers : Ended(w, "sale")
         /\ \A w \in Workers : req[w].args.quantity = q
         /\ S < NumWorkers * q
         /\ trace.customers[1].WalletBalance >= NumWorkers * q * trace.goods[1].PricePerItem)
        => /\ Cardinality(won) = S \div q
           /\ \A w \in Workers \ won : req[w].err = "InsufficientStock"
           /\ goods[1].StockCount = S - Cardinality(won) * q

\* The operations of customers.py behind the identity check.
ProtectedOps == {"update_customer", "delete", "charge", "deduct"}

\* The workers that can have taken the step: the one whose request record
\* changed, or any of them when a request got the answer the worker already
\* held.
Actors == IF req' = req THEN Workers ELSE {w \in Workers : req'[w] # req[w]}

\* C11: a request of update, delete, charge or deduct on customer u whose
\* token identity differs from u is answered 403 and changes no customer
\* row; and every customer row that such a step changes or removes belongs
\* to the customer whose username is the identity of the request's token.
OnlyOwnRowChanged ==
    [][/\ \A w \in Workers :
            (/\ req'[w] # req[w]
             /\ req'[w].op \in ProtectedOps
             /\ req'[w].pc = "idle"
             /\ TokenOk(req'[w].args.header)
             /\ decode_jwt(req'[w].args.header) # req'[w].args.username)
            => (req'[w].status = 403 /\ customers' = customers)
       /\ \A c \in DOMAIN customers :
            (c \notin DOMAIN customers' \/ customers'[c] # customers[c])
            => \E w \in Actors :
                  /\ req'[w].pc = "idle"
                  /\ req'[w].op \in ProtectedOps
                  /\ req'[w].args.username = customers[c].Username
                  /\ decode_jwt(req'[w].args.header) = customers[c].Username]_vars

\* C11's case: a delete sent with another customer's valid token has been
\* answered 403, and a delete sent with the customer's own token has
\* removed a row.
ForbiddenAndOwnDelete ==
    \E w, v \in Workers :
        /\ Ended(w, "delete") /\ req[w].status = 403
        /\ TokenOk(req[w].args.header)
        /\ Ended(v, "delete") /\ req[v].status = 200
        /\ Cardinality(DOMAIN customers) = 1

\* The first step of a request on a protected route by worker w: the step
\* on which token_required looks at the header.
TokenStep(w) ==
    /\ now' = now
    /\ req[w].pc = "idle"
    /\ req'[w].op \in ProtectedOps
    /\ req'[w].pc \in {"idle", "deduct_update", "delete_row"}

Rejected(w) == req'[w].pc = "idle" /\ req'[w].status = 401

\* C12: a protected route accepts an issued token at any time before its
\* expiry (one hour after it was issued) and answers 401 at any time after
\* it; a request with no header, a malformed one or a token signed with
\* another key is answered 401; a request answered 401 changes no table;
\* and no step removes an issued token's expiry or makes an expired token
\* valid again.
TokenValidForOneHour ==
    [][/\ \A w \in Actors :
            TokenStep(w) =>
                LET h == req'[w].args.header
                IN  /\ (h \in issued /\ now < h.exp) => ~Rejected(w)
                    /\ (h \in issued /\ now > h.exp) => (Rejected(w) /\ db' = db)
                    /\ h \notin issued => (Rejected(w) /\ db' = db)
       /\ \A h \in issued : h \in issued' /\ (Expired(h) => Expired(h)')]_vars

\* C12's case: a token that login issued has been answered 401 after its
\* hour, on a route that accepted it before.
ExpiredTokenRejected ==
    \E w \in Workers :
        /\ req[w].pc = "idle"
        /\ req[w].op \in ProtectedOps
        /\ req[w].status = 401
        /\ req[w].args.header \in issued
        /\ now > req[w].args.header.exp
        /\ customers[1].WalletBalance > 1

\* C13: login issues a token exactly when a customer with the supplied
\* username exists and its stored password is the supplied one, and is
\* answered 401 and issues nothing otherwise; the token it issues carries
\* the supplied username and expires one hour later; login changes no
\* table.
LoginIssuesIffCredentials ==
    [][\A w \in Actors :
          (now' = now /\ req[w].pc = "idle" /\ req'[w].pc = "idle"
             /\ req'[w].op = "login") =>
              LET a == req'[w].args
                  known == \E c \in DOMAIN customers :
                               /\ customers[c].Username = a.username
                               /\ customers[c].Password = a.password
              IN  /\ db' = db
                  /\ known =>
                        /\ req'[w].status = 200
                        /\ issued' = issued \cup
                               {Token(a.username, now + TokenHours * TicksPerHour)}
                  /\ ~known => (req'[w].status = 401 /\ issued' = issued)]_vars

\* C13's case: a login with the right password has been answered with a
\* second token, issued later than the first.
SecondTokenIssued ==
    \E w \in Workers :
        /\ Ended(w, "login")
        /\ req[w].status = 200
        /\ \E t, u \in issued :
              t.Username = req[w].args.username /\ u.Username = t.Username /\ u.exp < t.exp

\* C14: run alone by the customer, a deduct with amount <= 0 is answered
\* InvalidAmount and one with amount > balance InsufficientBalance, both
\* without changing a balance; one with 0 < amount <= balance goes on to
\* its write, which decreases that balance by exactly amount and is answered
\* 200. A charge with amount <= 0 is answered InvalidAmount and changes no
\* balance.
WalletRequestsExact ==
    [][\A w \in Actors :
          LET a == req'[w].args
              c == CustomerByUsername(a.username)
              own == TokenOk(a.header) /\ decode_jwt(a.header) = a.username /\ c # 0
          IN  /\ (req[w].pc = "idle" /\ req'[w].op = "deduct" /\ own) =>
                    /\ customers' = customers
                    /\ IF a.amount <= 0
                       THEN req'[w].pc = "idle" /\ req'[w].err = "InvalidAmount"
                       ELSE IF a.amount > customers[c].WalletBalance
                       THEN req'[w].pc = "idle" /\ req'[w].err = "InsufficientBalance"
                       ELSE req'[w].pc = "deduct_update"
              /\ (req[w].pc = "deduct_update" /\ req'[w] # req[w]) =>
                    /\ req'[w].pc = "idle" /\ req'[w].status = 200
                    /\ customers' = [customers EXCEPT ![c].WalletBalance = @ - a.amount]
              /\ (req[w].pc = "idle" /\ req'[w].op = "charge" /\ own /\ a.amount <= 0) =>
                    /\ req'[w].err = "InvalidAmount"
                    /\ customers' = customers]_vars

\* C14's case: a deduction of the whole balance has succeeded.
WholeBalanceDeducted ==
    \E w \in Workers :
        /\ Ended(w, "deduct")
        /\ req[w].status = 200
        /\ req[w].args.amount = MaxBalance
        /\ customers[CustomerByUsername(req[w].args.username)].WalletBalance = 0

\* C16: run alone, a stock deduction with quantity <= 0 is answered
\* InvalidQuantity, one on an unknown good id GoodNotFound (either of the
\* two when both hold), one for more than the stock InsufficientStock with
\* the available stock in the answer, all without changing a table;
\* otherwise it goes on to its write, which decreases that good's stock by
\* exactly the quantity, leaves every other good as it was and is
\* answered 200.
StockDeductionExact ==
    [][\A w \in Actors :
          LET a == req'[w].args
              g == a.good_id
          IN  /\ (req[w].pc = "idle" /\ req'[w].op = "deduct_goods") =>
                    /\ db' = db
                    /\ IF a.quantity <= 0 /\ g \notin DOMAIN goods
                       THEN /\ req'[w].pc = "idle"
                            /\ req'[w].err \in {"InvalidQuantity", "GoodNotFound"}
                       ELSE IF a.quantity <= 0
                       THEN req'[w].pc = "idle" /\ req'[w].err = "InvalidQuantity"
                       ELSE IF g \notin DOMAIN goods
                       THEN req'[w].pc = "idle" /\ req'[w].err = "GoodNotFound"
                       ELSE IF a.quantity > goods[g].StockCount
                       THEN /\ req'[w].pc = "idle"
                            /\ req'[w].err = "InsufficientStock"
                            /\ req'[w].reported = goods[g].StockCount
                       ELSE req'[w].pc = "deduct_goods_update"
              /\ (req[w].pc = "deduct_goods_update" /\ req'[w] # req[w]) =>
                    /\ req'[w].pc = "idle" /\ req'[w].status = 200
                    /\ goods' = [goods EXCEPT ![g].StockCount = @ - a.quantity]
                    /\ UNCHANGED <<customers, nextCustomerId, nextGoodId, purchases>>]_vars

\* C16's case: the whole stock of one good has been deducted and the other
\* good still has its stock.
WholeStockDeducted ==
    \E w \in Workers :
        /\ Ended(w, "deduct_goods")
        /\ req[w].status = 200
        /\ req[w].args.quantity = MaxStock
        /\ goods[req[w].args.good_id].StockCount = 0
        /\ \E g \in DOMAIN goods : goods[g].StockCount > 0

\* The sum of f[w] over the workers ws.
RECURSIVE Total(_, _)
Total(f, ws) ==
    IF ws = {} THEN 0
    ELSE LET w == CHOOSE v \in ws : TRUE
         IN  f[w] + Total(f, ws \ {w})

\* What the successful requests of one operation moved, by the field of
\* their inputs that holds the amount or the quantity.
Charged == Total([w \in Workers |->
               IF Ended(w, "charge") /\ req[w].status = 200 THEN req[w].args.amount ELSE 0],
               Workers)
Deducted == Total([w \in Workers |->
               IF Ended(w, "deduct") /\ req[w].status = 200 THEN req[w].args.amount ELSE 0],
               Workers)
StockDeducted == Total([w \in Workers |->
               IF Ended(w, "deduct_goods") /\ req[w].status = 200
               THEN req[w].args.quantity ELSE 0], Workers)

\* C15: when only charges and deductions run on alice's account, in any
\* interleaving, her balance is the initial balance plus the amounts of the
\* charges answered 200 minus the amounts of the deductions answered 200.
NoLostWalletUpdate ==
    (\A w \in Workers : req[w].op \in {"none", "charge", "deduct"})
        => customers[1].WalletBalance =
               trace.customers[1].WalletBalance + Charged - Deducted

\* C15's case: a charge and a deduction of different amounts on the same
\* account have both been answered 200.
ChargeAndDeductDone ==
    \E w, v \in Workers :
        /\ Ended(w, "charge") /\ req[w].status = 200
        /\ Ended(v, "deduct") /\ req[v].status = 200
        /\ req[w].args.amount # req[v].args.amount

\* C17: when only stock deductions run on the Laptop, in any interleaving,
\* and all are answered, the quantities of those answered 200 sum to at
\* most the initial stock and to exactly initial minus final stock, and
\* every other one is answered InsufficientStock.
StockDeductionsAtomic ==
    (\A w \in Workers : Ended(w, "deduct_goods"))
        => /\ StockDeducted <= trace.goods[1].StockCount
           /\ StockDeducted = trace.goods[1].StockCount - goods[1].StockCount
           /\ \A w \in Workers :
                  req[w].status # 200 => req[w].err = "InsufficientStock"

\* ---------------------------------------------------------------------
\* The ledger beside the requests that rewrite or remove customer rows:
\* purchases by alice, updates of a customer's key or name, deletions.
InitLedger == Shop({MaxBalance}, {1}, {MaxStock}) /\ trace = NoTrace

KeyUpdates == {d \in ValidCustomerUpdates : d.set \subseteq {"CustomerID", "Username"}}

NextLedger ==
    \E w \in Workers :
        \/ SaleBegin(w, "alice", "Laptop", 1, NoHeader)
        \/ SaleRest(w)
        \/ \E h \in issued, d \in KeyUpdates : UpdateCustomer(w, h.Username, h, d)
        \/ \E h \in issued : DeleteBegin(w, h.Username, h)
        \/ DeleteRow(w)

SpecLedger == InitLedger /\ [][NextLedger]_vars

\* get_purchase_history, lines 189-201: the rows of HistoricalPurchases
\* joined to the customer of that name.
PurchasesOf(username) ==
    {i \in DOMAIN purchases : purchases[i].CustomerID = CustomerByUsername(username)}

\* C18: the ledger is append-only: no step changes or removes a row it
\* holds, and the number of rows of a customer who is there before and after
\* the step never decreases.
LedgerAppendOnly ==
    [][/\ Len(purchases') >= Len(purchases)
       /\ SubSeq(purchases', 1, Len(purchases)) = purchases
       /\ \A u \in Usernames :
              (CustomerByUsername(u) # 0 /\ CustomerByUsername(u)' # 0)
                  => Cardinality(PurchasesOf(u)') >= Cardinality(PurchasesOf(u))]_vars

\* C19: every row of the ledger refers to a customer and a good that exist.
LedgerRefersToExistingRows ==
    \A i \in DOMAIN purchases :
        /\ purchases[i].CustomerID \in DOMAIN customers
        /\ purchases[i].GoodID \in DOMAIN goods

\* C20: every row appended to the ledger has Quantity > 0, TotalAmount > 0
\* and TotalAmount = Quantity times the price its good has at the moment of
\* the append, whatever update_goods did since the purchase read the good.
PurchaseAtPriceOfAppend ==
    [][Len(purchases') > Len(purchases) =>
           LET row == purchases'[Len(purchases')]
           IN  /\ row.Quantity > 0
               /\ row.TotalAmount > 0
               /\ row.TotalAmount = row.Quantity * goods[row.GoodID].PricePerItem]_vars

\* ---------------------------------------------------------------------
\* Registration beside the requests that free or move a customer's key:
\* alice is registered and holds a token; customers register, alice's key
\* is updated and alice is deleted.
InitIds == Shop({0}, {1}, {MaxStock}) /\ trace = NoTrace

SetKey == {d \in ValidCustomerUpdates : d.set = {"CustomerID"}}

NextIds ==
    \E w \in Workers :
        \/ \E u \in Usernames : RegisterBegin(w, u, "pw", FALSE)
        \/ RegisterInsert(w)
        \/ \E h \in issued, d \in SetKey : UpdateCustomer(w, h.Username, h, d)
        \/ \E h \in issued : DeleteBegin(w, h.Username, h)
        \/ DeleteRow(w)

SpecIds == InitIds /\ [][NextIds]_vars

\* C21: a register answered 'Username already exists.' leaves the customer
\* set unchanged; a register that succeeds adds exactly one customer, with
\* wallet balance 0 and an id no customer has held before, deleted customers
\* included.
RegisterAssignsFreshId ==
    [][\A w \in Actors :
          (req[w].op = "register" /\ req[w].pc # "idle" /\ Ended(w, "register")')
              => /\ req'[w].status # 201 => customers' = customers
                 /\ req'[w].status = 201 =>
                        \E id \in DOMAIN customers' \ DOMAIN customers :
                            /\ DOMAIN customers' = DOMAIN customers \cup {id}
                            /\ \A c \in DOMAIN customers : customers'[c] = customers[c]
                            /\ customers'[id].WalletBalance = 0
                            /\ id \notin assigned]_vars

\* ---------------------------------------------------------------------
\* Usernames: from the empty database, customers register (two requests for
\* the same username can be in progress together), log in and rename
\* themselves.
Renames == {d \in ValidCustomerUpdates : d.set = {"Username"}}

NextUsernames ==
    \E w \in Workers :
        \/ \E u \in Usernames : RegisterBegin(w, u, "pw", FALSE)
        \/ RegisterInsert(w)
        \/ \E u \in Usernames : Login(w, u, "pw")
        \/ \E h \in issued, d \in Renames : UpdateCustomer(w, h.Username, h, d)

SpecUsernames == Init /\ [][NextUsernames]_vars

\* C22: no two customers share a username, in every reachable state; and a
\* registration's INSERT succeeds exactly when no customer holds the username
\* at that moment, so that of two registrations of one username in progress
\* together exactly one succeeds.
UsernamesUnique ==
    [](\A c, o \in DOMAIN customers :
           c # o => customers[c].Username # customers[o].Username)
    /\ [][\A w \in Actors :
            (req[w].pc = "register_insert" /\ Ended(w, "register")')
                => /\ req'[w].status = 201 <=> CustomerByUsername(req[w].username) = 0
                   /\ req'[w].status # 201 =>
                          req'[w].err = "UsernameExists" /\ customers' = customers]_vars

\* One of two registrations of the same username has succeeded, the other is
\* about to run its INSERT.
SecondRegistrationOfUsername ==
    \E w, o \in Workers :
        /\ Ended(w, "register") /\ req[w].status = 201
        /\ req[o].pc = "register_insert"
        /\ CustomerByUsername(req[o].username) # 0
        /\ \A c \in DOMAIN customers : customers[c].Username = req[o].username

\* ---------------------------------------------------------------------
\* Updates of goods: two goods are in stock, and PUT /update/<good_id>
\* arrives for them and for an id no good has, with an empty body or one
\* field.
NextGoodUpdates ==
    \E w \in {FirstWorker} :
        \E g \in 1..nextGoodId, d \in GoodUpdates : UpdateGoods(w, g, d)

SpecGoodUpdates == InitStock /\ [][NextGoodUpdates]_vars

\* C23: no two goods share a name, in every reachable state.
GoodNamesUnique ==
    \A g, h \in DOMAIN goods : g # h => goods[g].Name # goods[h].Name

\* C30: an update of a good with an empty body is answered 400 and changes
\* nothing; an update that names fields, for an id no good has, is answered
\* 200 and leaves every good unchanged.
GoodUpdateEdgeCases ==
    [][\A w \in Actors :
          Ended(w, "update_goods")' =>
              LET a == req'[w].args
              IN  /\ a.data.set = {} => req'[w].status = 400 /\ goods' = goods
                  /\ (a.data.set # {} /\ a.good_id \notin DOMAIN goods)
                         => req'[w].status = 200 /\ goods' = goods]_vars

\* An update that names fields, for an id no good has, was answered 200.
MissingGoodUpdated ==
    /\ Ended(FirstWorker, "update_goods")
    /\ req[FirstWorker].args.good_id \notin DOMAIN goods
    /\ req[FirstWorker].args.data.set # {}
    /\ req[FirstWorker].status = 200
    /\ goods = trace.goods

\* ---------------------------------------------------------------------
\* Submissions of reviews, one request at a time: alice and bob are
\* registered and hold tokens, the Laptop is in stock; reviews arrive with or
\* without a token, for customers 1 to 3 and goods 1 and 2, of which customer
\* 3 and good 2 do not exist, with ratings around both ends of the range.
SubmittedRatings == {MinRating - 1, MinRating, MaxRating, MaxRating + 1}

NextSubmit ==
    \E w \in {FirstWorker} :
        \/ \E h \in issued \cup {NoHeader}, c \in 1..(MaxCustomers + 1), g \in GoodIds,
              r \in SubmittedRatings : SubmitBegin(w, h, c, g, r)
        \/ SubmitRest(w)

SpecSubmit == InitAuth /\ [][NextSubmit]_vars

\* A submission the claim is about: the caller holds a valid token, and the
\* CustomerID of the body is the caller's own or no customer's.
OwnSubmission(a) ==
    /\ TokenOk(a.header)
    /\ a.CustomerID \in DOMAIN customers
           => customers[a.CustomerID].Username = decode_jwt(a.header)

\* Every step that changes the Reviews table ends a submission with 201 and
\* adds exactly one row, Pending and without votes; a submission that ends
\* otherwise adds nothing.
SubmissionAddsOnePending ==
    /\ reviews' # reviews =>
           \E w \in Actors, id \in DOMAIN reviews' \ DOMAIN reviews :
               /\ Ended(w, "submit_review")' /\ req'[w].status = 201
               /\ DOMAIN reviews' = DOMAIN reviews \cup {id}
               /\ \A r \in DOMAIN reviews : reviews'[r] = reviews[r]
               /\ reviews'[id].Status = "Pending"
               /\ reviews'[id].Upvotes = 0 /\ reviews'[id].Downvotes = 0
    /\ \A w \in Actors :
           (Ended(w, "submit_review")' /\ req'[w].status # 201) => reviews' = reviews
    /\ \A w \in Actors :
           (req'[w] # req[w] /\ Ended(w, "submit_review")' /\ req'[w].status = 201)
               => reviews' # reviews

Moderated ==
    /\ customers = (1 :> [Username |-> "alice", Password |-> "pw",
                          WalletBalance |-> 0, IsAdmin |-> TRUE])
                   @@ (2 :> [Username |-> "bob", Password |-> "pw",
                             WalletBalance |-> 0, IsAdmin |-> FALSE])
    /\ nextCustomerId = 3
    /\ goods = (1 :> [Name |-> "Laptop", PricePerItem |-> 1, StockCount |-> MaxStock])
    /\ nextGoodId = 2
    /\ purchases = <<>>
    /\ issued = {Token(u, TokenHours * TicksPerHour) : u \in Usernames}
    /\ now = 0
    /\ reviews = (1 :> NewReview(2, 1, MaxRating, ""))
    /\ nextReviewId = 2
    /\ assigned = DOMAIN customers
    /\ req = [w \in Workers |-> Fresh]

InitModerate == Moderated /\ trace = NoTrace

\* The statuses moderations arrive with.
RequestedStatuses == {"Pending", "Accepted", "Rejected", "Spam"}

AdminFlagUpdates == {d \in ValidCustomerUpdates : d.set = {"IsAdmin"}}

NextModerate ==
    \E w \in Workers :
        \/ \E r \in 1..nextReviewId, c \in 1..(MaxCustomers + 1),
              st \in RequestedStatuses : ModerateBegin(w, NoHeader, r, c, st)
        \/ ModerateWrite(w)
        \/ \E d \in AdminFlagUpdates :
               UpdateCustomer(w, "alice", Token("alice", TokenHours * TicksPerHour), d)
        \/ UpdateReviewBegin(w, 1, Token("bob", TokenHours * TicksPerHour), 2, MinRating, "")
        \/ UpdateReviewRest(w)
        \/ \E col \in {"Upvotes", "Downvotes"} :
               req[w].op # col /\ VoteBegin(w, 1, col)
        \/ VoteWrite(w)

SpecModerate == InitModerate /\ [][NextModerate]_vars

\* C25: the status of a review changes only in a step of a moderation whose
\* acting customer is an admin at that step; a moderation in the name of a
\* customer who is no admin is answered 403 and changes no status.
StatusChangedByAdminOnly ==
    [][/\ \A r \in DOMAIN reviews \cap DOMAIN reviews' :
              reviews'[r].Status # reviews[r].Status =>
                  \E w \in Actors :
                      /\ req[w].pc = "moderate_write"
                      /\ req[w].customer_id \in DOMAIN customers
                      /\ customers[req[w].customer_id].IsAdmin
       /\ \A w \in Actors :
              (Ended(w, "moderate")' /\ req'[w].status = 403) => reviews' = reviews]_vars

\* Moderations alone, observed: in the name of customers 1 to 3, for reviews
\* 1 and 2, with the three statuses and one that is none of them.
InitModeration == Moderated /\ trace = Trace(customers, goods)

NextModeration ==
    \E w \in Workers :
        \/ \E r \in 1..nextReviewId, c \in 1..(MaxCustomers + 1),
              st \in RequestedStatuses : ModerateBegin(w, NoHeader, r, c, st)
        \/ ModerateWrite(w)

SpecModeration == InitModeration /\ [][NextModeration]_vars

InitReviewOwners == Moderated /\ trace = Trace(customers, goods)

NextReviewOwners ==
    \E w \in Workers :
        \/ \E r \in 1..nextReviewId, h \in issued, c \in DOMAIN customers,
              rt \in {MinRating, MaxRating + 1} :
               UpdateReviewBegin(w, r, h, c, rt, "edited")
        \/ UpdateReviewRest(w)
        \/ \E r \in 1..nextReviewId, h \in issued, c \in DOMAIN customers :
               DeleteReviewBegin(w, r, h, c)
        \/ DeleteReviewRest(w)
        \/ \E d \in AdminFlagUpdates :
               UpdateCustomer(w, "alice", Token("alice", TokenHours * TicksPerHour), d)

SpecReviewOwners == InitReviewOwners /\ [][NextReviewOwners]_vars

ReviewWrites == {"update_review_write", "delete_review_row"}

\* The caller of a request on a review is the customer the body names, is
\* authenticated as that customer, and is an admin or the owner of the review.
CallerIsOwnerOrAdmin(header, customer_id, review_id) ==
    /\ customer_id \in DOMAIN customers
    /\ TokenOk(header)
    /\ customers[customer_id].Username = decode_jwt(header)
    /\ \/ customers[customer_id].IsAdmin
       \/ reviews[review_id].CustomerID = customer_id

InitVotes == Moderated /\ trace = Trace(customers, goods)

NextVotes ==
    \E w \in Workers :
        \/ \E r \in 1..nextReviewId, col \in {"Upvotes", "Downvotes"} : VoteBegin(w, r, col)
        \/ VoteWrite(w)
        \/ DeleteReviewBegin(w, 1, Token("bob", TokenHours * TicksPerHour), 2)
        \/ DeleteReviewRest(w)

SpecVotes == InitVotes /\ [][NextVotes]_vars

SaleWrites == {"sale_debit", "sale_stock", "sale_insert"}

\* The request's connection has the lock for the statement it is at.
Holds(w) == "held" \in DOMAIN req[w] /\ req[w].held = req[w].pc

\* execute_query, line 31: cursor.execute takes the write lock.
SaleLock(w) ==
    /\ req[w].pc \in SaleWrites
    /\ \A v \in Workers : ~Holds(v)
    /\ req' = [req EXCEPT ![w] =
           [f \in DOMAIN req[w] \cup {"held"} |->
               IF f = "held" THEN req[w].pc ELSE req[w][f]]]
    /\ UNCHANGED <<db, issued, now, trace, reviewDb, assigned>>

\* execute_query, line 31, and make_sale, lines 165-166: the lock stayed
\* with another connection, cursor.execute raises and the request is
\* answered 500; what the request committed before stays.
SaleLockTimeout(w) ==
    /\ req[w].pc \in SaleWrites
    /\ \E v \in Workers \ {w} : Holds(v)
    /\ End(w, "sale", 500, "OperationalError", req[w].args, req[w].eff)
    /\ UNCHANGED <<db, issued, now, trace, reviewDb, assigned>>

\* execute_query, lines 37-39: the statement commits; the lock goes with the
\* connection.
SaleCommit(w) == Holds(w) /\ (SaleDebit(w) \/ SaleStock(w) \/ SaleInsert(w))

\* One step of a purchase that has passed its first checks.
SaleStep(w) == SaleReadCustomer(w) \/ SaleLock(w) \/ SaleLockTimeout(w) \/ SaleCommit(w)

\* Purchases of alice and bob in the shop, every write waiting for the lock.
InitLocks == Shop(0..MaxBalance, {1}, Stocks) /\ trace = Trace(customers, goods)

NextLocks ==
    \E w \in Workers :
        \/ \E u \in Usernames, n \in GoodNames, q \in ValidQuantities :
               SaleBegin(w, u, n, q, NoHeader)
        \/ SaleStep(w)

\* Every request that has begun keeps being served: the server gives every
\* request its thread and the library ends every wait for the lock.
SpecLocks == InitLocks /\ [][NextLocks]_vars /\ \A w \in Workers : WF_vars(SaleStep(w))

\* C29: every purchase that has begun ends; a request that has ended holds
\* no lock; a purchase that ended because the lock stayed taken is answered
\* 500 and has applied none of its writes.
LockConflictAbortsCleanly ==
    /\ \A w \in Workers : (req[w].pc # "idle") ~> (req[w].pc = "idle")
    /\ [](\A w \in Workers : Idle(w) => ~Holds(w))
    /\ [](\A w \in Workers :
             (Ended(w, "sale") /\ req[w].err = "OperationalError")
                 => req[w].status = 500 /\ req[w].eff = {})

\* ---------------------------------------------------------------------
\* get_product_reviews, lines 253-260: the rows of the JOIN of Reviews with
\* Customers, for the good, with Status 'Accepted'.
ProductReviewRows(good_id) ==
    {r \in DOMAIN reviews :
        /\ reviews[r].CustomerID \in DOMAIN customers
        /\ reviews[r].GoodID = good_id
        /\ reviews[r].Status = "Accepted"}

\* ORDER BY Reviews.Upvotes DESC (line 259): every order of the rows the
\* clause allows; rows of equal Upvotes come in any order.
OrderedByUpvotes(rows) ==
    {s \in [1..Cardinality(rows) -> rows] :
        /\ \A i, j \in DOMAIN s : i # j => s[i] # s[j]
        /\ \A i, j \in DOMAIN s : i < j => reviews[s[i]].Upvotes >= reviews[s[j]].Upvotes}

\* get_product_reviews, lines 242-283: one SELECT; 404 for no row, otherwise
\* 200 with the rows in their order.
GetProductReviews(w, good_id) ==
    /\ Idle(w)
    /\ \E rows \in OrderedByUpvotes(ProductReviewRows(good_id)) :
           req' = [req EXCEPT ![w] =
               [good_id |-> good_id, rows |-> rows]
               @@ Response("product_reviews", IF rows = <<>> THEN 404 ELSE 200,
                           IF rows = <<>> THEN "NoApprovedReviews" ELSE "none",
                           NoArgs, {})]
    /\ UNCHANGED <<db, issued, now, trace, reviewDb, assigned>>

\* The listing beside moderations, votes, a second review and the deletion
\* of bob, who wrote review 1.
InitListing == Moderated /\ trace = NoTrace

NextListing ==
    \E w \in Workers :
        \/ \E g \in 1..(MaxGoods + 1) : GetProductReviews(w, g)
        \/ \E r \in 1..MaxReviews, st \in {"Pending", "Accepted", "Rejected"} :
               ModerateBegin(w, NoHeader, r, 1, st)
        \/ ModerateWrite(w)
        \/ \E r \in 1..MaxReviews : VoteBegin(w, r, "Upvotes")
        \/ VoteWrite(w)
        \/ SubmitBegin(w, Token("alice", TokenHours * TicksPerHour), 1, 1, MaxRating)
        \/ SubmitRest(w)
        \/ DeleteBegin(w, "bob", Token("bob", TokenHours * TicksPerHour))
        \/ DeleteRow(w)

SpecListing == InitListing /\ [][NextListing]_vars

\* C31: the listing answered for a good holds exactly the reviews of that
\* good whose status is Accepted, each once, in non-increasing order of
\* upvotes (an answer of 404 is the empty listing).
ProductListingExact ==
    [][\A w \in Actors :
           Ended(w, "product_reviews")' =>
               LET rows == req'[w].rows
               IN  /\ {rows[i] : i \in DOMAIN rows} =
                          {r \in DOMAIN reviews :
                              /\ reviews[r].GoodID = req'[w].good_id
                              /\ reviews[r].Status = "Accepted"}
                   /\ \A i, j \in DOMAIN rows :
                          i < j => /\ rows[i] # rows[j]
                                   /\ reviews[rows[i]].Upvotes >= reviews[rows[j]].Upvotes]_vars

\* ---------------------------------------------------------------------
\* get_customer, customers.py lines 274-289: one SELECT of the
\* row, WalletBalance included; 404 for no row. The route has no
\* token_required.
GetCustomer(w, username) ==
    /\ Idle(w)
    /\ LET id == CustomerByUsername(username)
       IN  req' = [req EXCEPT ![w] =
               IF id = 0
               THEN [balance |-> 0] @@ Response("get_customer", 404, "CustomerNotFound", NoArgs, {})
               ELSE [balance |-> customers[id].WalletBalance]
                    @@ Response("get_customer", 200, "none", NoArgs, {})]
    /\ UNCHANGED <<db, issued, now, trace, reviewDb, assigned>>

\* get_customer_purchases, sales.py lines 182-186: the read of the
\* customer's id.
GetPurchasesBegin(w, username) ==
    /\ Idle(w)
    /\ LET id == CustomerByUsername(username)
       IN  IF id = 0
           THEN End(w, "get_purchases", 404, "CustomerNotFound", NoArgs, {})
           ELSE req' = [req EXCEPT ![w] =
                   [pc |-> "purchases_rows", op |-> "get_purchases", customer_id |-> id,
                    args |-> NoArgs]]
    /\ UNCHANGED <<db, issued, now, trace, reviewDb, assigned>>

\* get_customer_purchases, lines 190-198: the customer's rows of
\* HistoricalPurchases JOIN Goods.
GetPurchasesRows(w) ==
    /\ req[w].pc = "purchases_rows"
    /\ req' = [req EXCEPT ![w] =
           [rows |-> {i \in DOMAIN purchases :
                         /\ purchases[i].CustomerID = req[w].customer_id
                         /\ purchases[i].GoodID \in DOMAIN goods}]
           @@ Response("get_purchases", 200, "none", NoArgs, {})]
    /\ UNCHANGED <<db, issued, now, trace, reviewDb, assigned>>

\* Purchases beside the requests that look at what a purchase writes:
\* another purchase, deductions from the wallet and the stock, a read of the
\* customer and a read of the purchase history.
InitIsolation == Shop(0..MaxBalance, {1}, Stocks) /\ trace = NoTrace

NextIsolation ==
    \E w \in Workers :
        \/ \E u \in Usernames, q \in ValidQuantities : SaleBegin(w, u, "Laptop", q, NoHeader)
        \/ SaleRest(w)
        \/ \E h \in issued, a \in ValidAmounts : DeductBegin(w, h.Username, h, a)
        \/ DeductUpdate(w)
        \/ \E q \in ValidQuantities : DeductGoodsBegin(w, 1, q)
        \/ DeductGoodsUpdate(w)
        \/ \E u \in Usernames : GetCustomer(w, u)
        \/ \E u \in Usernames : GetPurchasesBegin(w, u)
        \/ GetPurchasesRows(w)

SpecIsolation == InitIsolation /\ [][NextIsolation]_vars

\* The purchase has committed its debit and not yet its Purchase row.
HalfApplied(w) == req[w].pc \in {"sale_stock", "sale_insert"} /\ "debit" \in req[w].eff

\* C32: no request runs a statement on the store in a state in which the
\* debit of another request's purchase is applied and its stock decrement or
\* its Purchase row is not.
SaleWritesIsolated ==
    [][\A v \in Actors : \A w \in Workers \ {v} : ~HalfApplied(w)]_vars

\* ---------------------------------------------------------------------
\* What the rows of HistoricalPurchases hold for one customer and for one
\* good.
Purchased(customer_id) ==
    Total([i \in DOMAIN purchases |->
              IF purchases[i].CustomerID = customer_id THEN purchases[i].TotalAmount ELSE 0],
          DOMAIN purchases)
Sold(good_id) ==
    Total([i \in DOMAIN purchases |->
              IF purchases[i].GoodID = good_id THEN purchases[i].Quantity ELSE 0],
          DOMAIN purchases)

\* C33: whenever no request is in progress, alice's balance is her balance of
\* the start plus the amounts of her charges answered 200, minus the amounts
\* of her deductions answered 200, minus the TotalAmount of her rows of
\* HistoricalPurchases.
WalletConservation ==
    (\A w \in Workers : Idle(w))
        => customers[1].WalletBalance =
               trace.customers[1].WalletBalance + Charged - Deducted - Purchased(1)

\* Stock conservation in the same runs, for comparison with the runs in
\* which a write may find the store locked.
StockConservationUnlocked ==
    (\A w \in Workers : Idle(w))
        => trace.goods[1].StockCount - goods[1].StockCount = StockDeducted + Sold(1)

\* ---------------------------------------------------------------------
\* One request per worker, a purchase or a stock deduction, every write of a
\* purchase waiting for the store's write lock; a deduction writes when the
\* lock is free.
InitStockLedger == Shop(0..MaxBalance, {1}, Stocks) /\ trace = Trace(customers, goods)

NextStockLedger ==
    \E w \in Workers :
        \/ \E q \in ValidQuantities :
               req[w].op = "none" /\ SaleBegin(w, "alice", "Laptop", q, NoHeader)
        \/ SaleStep(w)
        \/ \E q \in ValidQuantities :
               req[w].op = "none" /\ DeductGoodsBegin(w, 1, q)
        \/ (\A v \in Workers : ~Holds(v)) /\ DeductGoodsUpdate(w)

SpecStockLedger == InitStockLedger /\ [][NextStockLedger]_vars

\* C34: whenever no request is in progress, what the Laptop's stock has lost
\* since the start is the quantities of the stock deductions answered 200
\* plus the Quantity of the rows of HistoricalPurchases that refer to it.
StockConservation ==
    (\A w \in Workers : Idle(w))
        => trace.goods[1].StockCount - goods[1].StockCount = StockDeducted + Sold(1)

\* ---------------------------------------------------------------------
\* Profile updates of any one column but the key, beside the requests that
\* move the wallet.
NextProfile ==
    \E w \in Workers :
        \/ \E h \in issued, d \in ColumnUpdates : UpdateCustomer(w, h.Username, h, d)
        \/ \E h \in issued, a \in ValidAmounts : ChargeWallet(w, h.Username, h, a)
        \/ \E h \in issued, a \in ValidAmounts : DeductBegin(w, h.Username, h, a)
        \/ DeductUpdate(w)
        \/ \E u \in Usernames, q \in ValidQuantities : SaleBegin(w, u, "Laptop", q, NoHeader)
        \/ SaleRest(w)

SpecProfile == InitAccounts /\ [][NextProfile]_vars

\* C35: a step of update_customer changes no customer's WalletBalance and no
\* customer's IsAdmin; a customer's WalletBalance changes only in a step of
\* charge_wallet, deduct_wallet or a purchase, and IsAdmin never changes
\* once the row is there.
ProfileUpdateKeepsWalletAndAdmin ==
    [][\A id \in DOMAIN customers \cap DOMAIN customers' :
           /\ customers'[id].IsAdmin = customers[id].IsAdmin
           /\ customers'[id].WalletBalance # customers[id].WalletBalance =>
                  \E w \in Actors :
                      \/ req[w].pc \in {"deduct_update", "sale_debit"}
                      \/ Idle(w) /\ Ended(w, "charge")']_vars

\* ---------------------------------------------------------------------
\* The life of an account and of its token: alice (CustomerID 1) holds the one
\* token there is, issued at the start. She deletes her account; someone
\* registers the username alice again, with another password; time passes;
\* the token is sent with charges, deductions, updates and deletions.
InitRevoke == Shop({1}, {1}, {1}) /\ trace = NoTrace

NextRevoke ==
    \E w \in Workers :
        \/ \E h \in issued : DeleteBegin(w, "alice", h)
        \/ DeleteRow(w)
        \/ RegisterBegin(w, "alice", "guess", FALSE)
        \/ RegisterInsert(w)
        \/ \E h \in issued : ChargeWallet(w, "alice", h, 1)
        \/ \E h \in issued : DeductBegin(w, "alice", h, 1)
        \/ DeductUpdate(w)
        \/ \E h \in issued, d \in RenameOrEmpty : UpdateCustomer(w, "alice", h, d)
        \/ Tick

SpecRevoke == InitRevoke /\ [][NextRevoke]_vars

\* C36: once the account the token was issued for (CustomerID 1) is deleted,
\* no step of a request behind token_required changes the customers, also
\* when the username is registered again.
TokenDiesWithAccount ==
    [][1 \notin DOMAIN customers =>
           \A w \in Actors :
               req'[w].op \in ProtectedOps => customers' = customers]_vars

\* ---------------------------------------------------------------------
\* Moderations in the name of alice, the admin (CustomerID 1), sent with her
\* token, with bob's token or with no Authorization header.
InitModerateTokens == Moderated /\ trace = NoTrace

NextModerateTokens ==
    \E w \in Workers :
        \/ \E h \in issued \cup {NoHeader}, r \in 1..nextReviewId,
              st \in {"Pending", "Accepted", "Rejected"} :
               ModerateBegin(w, h, r, 1, st)
        \/ ModerateWrite(w)

SpecModerateTokens == InitModerateTokens /\ [][NextModerateTokens]_vars

\* The request was sent with a token of the customer its body names.
SentByActingCustomer(w) ==
    /\ TokenOk(req[w].header)
    /\ req[w].customer_id \in DOMAIN customers
    /\ customers[req[w].customer_id].Username = decode_jwt(req[w].header)

\* C37: a moderation changes the status of a review only when it was sent
\* with a valid token of the customer its body names. Of two moderations
\* that differ in nothing but the token, run from the same state, the one
\* without the admin's token then changes nothing, so that the two do not
\* both change the status.
ModerationAuthenticated ==
    [][\A r \in DOMAIN reviews \cap DOMAIN reviews' :
           reviews'[r].Status # reviews[r].Status =>
               \E w \in Actors :
                   req[w].pc = "moderate_write" /\ SentByActingCustomer(w)]_vars

\* ---------------------------------------------------------------------
\* Who a review belongs to: bob has written review 1 and submits another with
\* his token, in his own name or in the name of another CustomerID; reviews
\* are rewritten by either customer in the own name; either customer sets the
\* CustomerID of the own row through update_customer.
InitAuthorship == Moderated /\ trace = NoTrace

NextAuthorship ==
    \E w \in Workers :
        \/ \E c \in 1..(MaxCustomers + 1) :
               SubmitBegin(w, Token("bob", TokenHours * TicksPerHour), c, 1, MaxRating)
        \/ SubmitRest(w)
        \/ \E r \in 1..MaxReviews, h \in issued :
               UpdateReviewBegin(w, r, h, CustomerByUsername(h.Username), MinRating, "edited")
        \/ UpdateReviewRest(w)
        \/ \E h \in issued, d \in SetKey : UpdateCustomer(w, h.Username, h, d)

SpecAuthorship == InitAuthorship /\ [][NextAuthorship]_vars

\* C38: the CustomerID of every review is never the id of a customer other
\* than the one whose token submitted it (here bob's, who submits every
\* review); the INSERT of a submission sets it so; and no step changes the
\* CustomerID or the GoodID of a review.
ReviewsKeepTheirAuthor ==
    /\ [](\A r \in DOMAIN reviews :
             reviews[r].CustomerID \in DOMAIN customers
                 => customers[reviews[r].CustomerID].Username = "bob")
    /\ [][/\ \A r \in DOMAIN reviews \cap DOMAIN reviews' :
                 /\ reviews'[r].CustomerID = reviews[r].CustomerID
                 /\ reviews'[r].GoodID = reviews[r].GoodID
          /\ \A r \in DOMAIN reviews' \ DOMAIN reviews :
                 \E w \in Actors :
                     /\ req[w].pc = "submit_insert"
                     /\ reviews'[r].CustomerID \in DOMAIN customers
                            => customers[reviews'[r].CustomerID].Username
                                   = decode_jwt(req[w].args.header)]_vars

====
